---------------------------- MODULE Spec2Model ----------------------------
(***************************************************************************)
(* A model of the BSRR consensus engine of berith-chain: the candidate     *)
(* elector (berith/selection), and the header preparation and header       *)
(* verification of consensus/bsrr.                                         *)
(*                                                                         *)
(* Go indices are 0-based and TLA+ sequences 1-based: a Go index i is the  *)
(* TLA+ index i + 1.  The operators keep the Go index in their arguments   *)
(* and results and add 1 where they read a sequence.                       *)
(***************************************************************************)
EXTENDS Integers, Sequences, FiniteSets, TLC

VARIABLES
    cs,        \* the Candidates of the running election: selections, total, ts
    queue,     \* the Queue of the queue variant
    result,    \* the VoteResults being built: address -> [Score, Rank]
    elect,     \* the locals of the running election and its position
    rng,       \* the process-wide math/rand source: seed and draws taken
    oracle,    \* the output stream of the generator, per seed, as far as drawn
    run,       \* which run of the same election this is, and the first run's outcome
    env,       \* the chain, the configuration, the engine's signer and the clock
    call       \* the last call of an engine method: its arguments and what it returned

electVars == <<cs, queue, result, elect, rng, oracle, run>>

engineVars == <<env, call>>

vars == <<cs, queue, result, elect, rng, oracle, run, env, call>>

(***************************************************************************)
(* Bounds of the model.                                                    *)
(***************************************************************************)
MaxCand == 3        \* candidates of one election
MaxPoint == 2       \* selection point of one candidate
WordBits == 16      \* the model's width of Go's uint64 / int64 (TLC integers are 32 bit)

(***************************************************************************)
(* Program constants.  MaxMiner is 10000 in the source; the model scales   *)
(* it down so that an election of more than MaxMiner candidates is within  *)
(* the bounds.                                                             *)
(***************************************************************************)
MaxMiner == 2
maxElectScore == 5000000
minElectScore == 10000

Uint64Mod == 2 ^ WordBits

\* uint64 arithmetic wraps around
U64(x) == x % Uint64Mod

\* int64(x) of a uint64 x: the upper half of the range is negative
Int64Of(x) == IF x >= Uint64Mod \div 2 THEN x - Uint64Mod ELSE x

Addresses == 1 .. MaxCand

NoResult == [a \in {} |-> 0]

\* the engine's variables while no engine method is under study
NoCall == [op |-> "none"]

EngineIdle ==
    /\ env = [kind |-> "none"]
    /\ call = NoCall

(***************************************************************************)
(* Candidates                                                              *)
(***************************************************************************)
NewCandidates == [selections |-> <<>>, total |-> 0, ts |-> 0]

Add(c0, c) ==
    LET t == U64(c0.total + c.point)
    IN  [c0 EXCEPT !.total = t,
                   !.selections = Append(@, [c EXCEPT !.val = t])]

RECURSIVE AddAll(_, _)
AddAll(c0, cands) ==
    IF cands = <<>> THEN c0
    ELSE AddAll(Add(c0, Head(cands)), Tail(cands))

\* GetSeed: the bytes that are hashed.  SHA-256 and the truncation to int64 are
\* a fixed function of these bytes; the bytes stand for the seed they yield.
RECURSIVE BigEndian(_)
BigEndian(n) == IF n = 0 THEN <<>> ELSE Append(BigEndian(n \div 256), n % 256)

GetSeed(isBIP2, number) == IF isBIP2 THEN BigEndian(number) ELSE <<number % 256>>


(***************************************************************************)
(* math/rand.  The generator is one process-wide source.  Its output       *)
(* stream is a fixed function of the seed; the model reveals the stream of *)
(* a seed draw by draw (oracle) and replays it when the same seed is set   *)
(* again.  Int63n(n) is the raw output reduced modulo n.                   *)
(***************************************************************************)
DefaultSeed == <<-1>>

SeedKeep(g, s) == g

Seed(g, s) == [seed |-> s, pos |-> 0]

SeedOracle(o, s) ==
    IF s \in DOMAIN o THEN o
    ELSE [x \in DOMAIN o \cup {s} |-> IF x = s THEN <<>> ELSE o[x]]

\* the values Int63n(n) can return in generator state g under oracle o
Int63nValues(g, o, n) ==
    IF g.pos < Len(o[g.seed]) THEN {o[g.seed][g.pos + 1] % n} ELSE 0 .. n - 1

\* the generator and the oracle after Int63n returned v
Int63nRng(g) == [g EXCEPT !.pos = @ + 1]

Int63nOracle(g, o, v) ==
    IF g.pos < Len(o[g.seed]) THEN o ELSE [o EXCEPT ![g.seed] = Append(@, v)]

(***************************************************************************)
(* VoteResults: result[account] = VoteResult{...} overwrites an entry.     *)
(***************************************************************************)
SetResult(res, account, vr) ==
    [x \in DOMAIN res \cup {account} |-> IF x = account THEN vr ELSE res[x]]

(***************************************************************************)
(* selectBIP3BlockCreator, the linear variant                              *)
(***************************************************************************)
\* the binary search of one round; start, end and the result are Go indices
RECURSIVE BIP3Search(_, _, _, _)
BIP3Search(sel, electedNumber, start, end) ==
    LET mid == (start + end) \div 2
        startElectRange == IF mid > 0 THEN sel[mid].val ELSE 0
        endElectRange == sel[mid + 1].val
    IN  IF electedNumber >= startElectRange /\ electedNumber <= endElectRange
        THEN mid
        ELSE BIP3Search(sel, electedNumber,
                        IF electedNumber > endElectRange THEN mid + 1 ELSE start,
                        IF electedNumber < startElectRange THEN mid - 1 ELSE end)

BIP3Chosen(c0, electedNumber) ==
    BIP3Search(c0.selections, electedNumber, 0, Len(c0.selections) - 1)

\* a removal that forgets to rebase the prefix sums behind the removed entry
BIP3RemoveNoRebase(c0, chosen) ==
    LET sel == c0.selections
        out == sel[chosen + 1]
    IN  [c0 EXCEPT !.selections =
                       [i \in 1 .. Len(sel) - 1 |->
                           IF i < chosen + 1 THEN sel[i] ELSE sel[i + 1]],
                   !.total = U64(@ - out.point)]

\* the removal of the chosen candidate (lines 154-161)
BIP3Remove(c0, chosen) ==
    LET sel == c0.selections
        out == sel[chosen + 1]
    IN  [c0 EXCEPT !.selections =
                       [i \in 1 .. Len(sel) - 1 |->
                           IF i < chosen + 1 THEN sel[i]
                           ELSE [sel[i + 1] EXCEPT !.val = U64(@ - out.point)]],
                   !.total = U64(@ - out.point)]

(***************************************************************************)
(* Queue: a FIFO of ranges sized to the candidate count.                   *)
(***************************************************************************)
setQueueAsCandidates(n) == [storage |-> <<>>, size |-> n]

QueueFull(q) == Len(q.storage) >= q.size

QueueEmpty(q) == q.storage = <<>>

\* enqueue returns an error and leaves the queue alone when it is full
enqueue(q, r) == IF QueueFull(q) THEN q ELSE [q EXCEPT !.storage = Append(@, r)]

dequeue(q) == [q EXCEPT !.storage = Tail(@)]

(***************************************************************************)
(* Range.binarySearch, the search of the queue variant                     *)
(***************************************************************************)
\* kind is "found" (with target, a, b), "panic" (index out of range) or
\* "hang" (the loop makes no progress)
RECURSIVE RangeSearch(_, _, _, _, _)
RangeSearch(r, sel, random, start, end) ==
    LET target == (start + end) \div 2
    IN  IF target < 0 \/ target >= Len(sel)
        THEN [kind |-> "panic", target |-> target, a |-> 0, b |-> 0]
        ELSE LET a == IF target > 0 THEN sel[target].val ELSE r.min
                 b == sel[target + 1].val
                 start2 == IF random < a THEN start ELSE target + 1
                 end2 == IF random < a THEN target ELSE end
             IN  IF random >= a /\ random <= b
                 THEN [kind |-> "found", target |-> target, a |-> a, b |-> b]
                 ELSE IF start2 = start /\ end2 = end
                 THEN [kind |-> "hang", target |-> target, a |-> a, b |-> b]
                 ELSE RangeSearch(r, sel, random, start2, end2)

\* the ranges binarySearch enqueues once target is found, in order
SubRanges(r, f) ==
    (IF r.start # f.target
     THEN <<[min |-> r.min, max |-> U64(f.a - 1), start |-> r.start, end |-> f.target]>>
     ELSE <<>>)
    \o
    (IF f.target + 1 # r.end
     THEN <<[min |-> U64(f.b + 1), max |-> r.max, start |-> f.target + 1, end |-> r.end]>>
     ELSE <<>>)

RECURSIVE EnqueueAll(_, _)
EnqueueAll(q, rs) == IF rs = <<>> THEN q ELSE EnqueueAll(enqueue(q, Head(rs)), Tail(rs))

(***************************************************************************)
(* The two electors, one loop iteration at a time.  A frame holds what an  *)
(* election works on: cs, queue, result, and the locals rank (count in the *)
(* queue variant), currentElectScore, electScoreGap; pc is "loop" inside   *)
(* the loop, "done" once the function returned, "panic" after a run-time   *)
(* panic and "hang" when a loop cannot end.                                *)
(***************************************************************************)
\* selectBIP3BlockCreator, lines 107-111; an empty array divides by zero
BIP3Enter(c0) ==
    LET n == Len(c0.selections)
    IN  [cs |-> c0, queue |-> setQueueAsCandidates(0), result |-> NoResult,
         rank |-> 1, currentElectScore |-> maxElectScore,
         electScoreGap |-> IF n = 0 THEN 0 ELSE (maxElectScore - minElectScore) \div n,
         pc |-> IF n = 0 THEN "panic" ELSE "loop"]

\* the argument of rand.Int63n in the next iteration (it panics unless positive)
BIP3DrawArg(f) == Int64Of(f.cs.total)

\* one iteration of the loop of lines 116-162, the draw being electedNumber
BIP3Round(f, electedNumber) ==
    LET chosen == BIP3Chosen(f.cs, electedNumber)
        cddt == f.cs.selections[chosen + 1]
        next == BIP3Remove(f.cs, chosen)
    IN  [f EXCEPT !.result = SetResult(@, cddt.address,
                                       [Rank |-> f.rank, Score |-> f.currentElectScore]),
                  !.currentElectScore = @ - f.electScoreGap,
                  !.rank = @ + 1,
                  !.cs = next,
                  !.pc = IF Len(next.selections) > 0 THEN "loop" ELSE "done"]

\* selectBlockCreator, lines 61-80
QueueEnter(c0) ==
    LET candidateCount == Len(c0.selections)
        q == setQueueAsCandidates(candidateCount)
        first == [min |-> 0, max |-> c0.total, start |-> 0, end |-> candidateCount]
    IN  [cs |-> c0, queue |-> enqueue(q, first), result |-> NoResult,
         rank |-> 1, currentElectScore |-> maxElectScore,
         electScoreGap |-> IF candidateCount = 0 THEN 0
                           ELSE (maxElectScore - minElectScore) \div candidateCount,
         pc |-> IF candidateCount = 0 THEN "panic"
                ELSE IF QueueFull(q) THEN "done" ELSE "loop"]

\* binarySearch draws only for a range of two candidates or more
QueueDraws(f) ==
    LET r == Head(f.queue.storage) IN r.end - r.start > 1

QueueDrawArg(f) ==
    LET r == Head(f.queue.storage) IN Int64Of(U64(r.max - r.min))

\* the end of one iteration of the loop of lines 82-94: account is elected and
\* q is the queue binarySearch left
QueueElected(f, q, account) ==
    [f EXCEPT !.result = SetResult(@, account,
                                   [Score |-> f.currentElectScore + f.cs.ts,
                                    Rank |-> f.rank]),
              !.queue = q,
              !.currentElectScore = @ - f.electScoreGap,
              !.rank = @ + 1,
              !.pc = IF f.rank + 1 <= MaxMiner /\ ~QueueEmpty(q) THEN "loop" ELSE "done"]

\* one iteration of the loop of lines 82-94, v being what rand.Int63n returns
\* (not read when binarySearch does not draw)
QueueRound(f, v) ==
    LET r == Head(f.queue.storage)
        q == dequeue(f.queue)
        sel == f.cs.selections
    IN  IF r.end - r.start <= 1
        THEN IF r.start >= Len(sel)
             THEN [f EXCEPT !.pc = "panic", !.queue = q]
             ELSE QueueElected(f, q, sel[r.start + 1].address)
        ELSE LET random == U64(v + r.min)
                 found == RangeSearch(r, sel, random, r.start, r.end)
             IN  IF found.kind = "found"
                 THEN QueueElected(f, EnqueueAll(q, SubRanges(r, found)),
                                   sel[found.target + 1].address)
                 ELSE [f EXCEPT !.pc = found.kind, !.queue = q]

(***************************************************************************)
(* The election as a state machine: one action for the entry of the        *)
(* function (locals, seeding, first enqueue) and one per loop iteration;   *)
(* the iteration that ends the loop returns.                               *)
(***************************************************************************)
CandidateInputs ==
    UNION {[1 .. n -> 0 .. MaxPoint] : n \in 1 .. MaxCand}

\* the candidate array the caller builds: address i + 1 at index i
BuildCandidates(points) ==
    AddAll(NewCandidates,
           [i \in 1 .. Len(points) |-> [address |-> i, point |-> points[i], val |-> 0]])

SeedInputs == {[number |-> 257, isBIP2 |-> FALSE], [number |-> 257, isBIP2 |-> TRUE]}

ElectStart(variant, si) ==
    [variant |-> variant, number |-> si.number, isBIP2 |-> si.isBIP2, pc |-> "start",
     rank |-> 0, currentElectScore |-> 0, electScoreGap |-> 0]

\* the frame of the running election
Frame ==
    [cs |-> cs, queue |-> queue, result |-> result, rank |-> elect.rank,
     currentElectScore |-> elect.currentElectScore,
     electScoreGap |-> elect.electScoreGap, pc |-> elect.pc]

SetFrame(f) ==
    /\ cs' = f.cs
    /\ queue' = f.queue
    /\ result' = f.result
    /\ elect' = [elect EXCEPT !.rank = f.rank,
                              !.currentElectScore = f.currentElectScore,
                              !.electScoreGap = f.electScoreGap,
                              !.pc = f.pc]

InitElect ==
    /\ \E points \in CandidateInputs, variant \in {"queue", "bip3"}, si \in SeedInputs :
          /\ cs = BuildCandidates(points)
          /\ elect = ElectStart(variant, si)
          /\ run = [no |-> 1, points |-> points, firstPc |-> "none", first |-> NoResult]
    /\ queue = setQueueAsCandidates(0)
    /\ result = NoResult
    /\ rng = [seed |-> DefaultSeed, pos |-> 0]
    /\ oracle = [s \in {DefaultSeed} |-> <<>>]
    /\ EngineIdle

\* rand.Seed(cs.GetSeed(config, number)), lines 69 and 114
SeedStep ==
    LET s == GetSeed(elect.isBIP2, elect.number)
    IN  /\ rng' = Seed(rng, s)
        /\ oracle' = SeedOracle(oracle, s)

\* rand.Int63n(n) returning v
DrawStep(v) ==
    /\ rng' = Int63nRng(rng)
    /\ oracle' = Int63nOracle(rng, oracle, v)

\* selectBIP3BlockCreator, lines 107-114
BIP3Begin ==
    /\ elect.pc = "start"
    /\ elect.variant = "bip3"
    /\ LET f == BIP3Enter(cs)
       IN  /\ SetFrame(f)
           /\ IF f.pc = "panic" THEN UNCHANGED <<rng, oracle>> ELSE SeedStep
    /\ UNCHANGED <<run, engineVars>>

\* one iteration of the loop of lines 116-162
BIP3Step ==
    /\ elect.pc = "loop"
    /\ elect.variant = "bip3"
    /\ IF BIP3DrawArg(Frame) <= 0
       THEN /\ SetFrame([Frame EXCEPT !.pc = "panic"])
            /\ UNCHANGED <<rng, oracle>>
       ELSE \E electedNumber \in Int63nValues(rng, oracle, BIP3DrawArg(Frame)) :
               /\ SetFrame(BIP3Round(Frame, electedNumber))
               /\ DrawStep(electedNumber)
    /\ UNCHANGED <<run, engineVars>>

\* selectBlockCreator, lines 61-80
QueueBegin ==
    /\ elect.pc = "start"
    /\ elect.variant = "queue"
    /\ LET f == QueueEnter(cs)
       IN  /\ SetFrame(f)
           /\ IF f.pc = "panic" THEN UNCHANGED <<rng, oracle>> ELSE SeedStep
    /\ UNCHANGED <<run, engineVars>>

\* one iteration of the loop of lines 82-94
QueueStep ==
    /\ elect.pc = "loop"
    /\ elect.variant = "queue"
    /\ IF ~QueueDraws(Frame)
       THEN /\ SetFrame(QueueRound(Frame, 0))
            /\ UNCHANGED <<rng, oracle>>
       ELSE IF QueueDrawArg(Frame) <= 0
       THEN /\ SetFrame([Frame EXCEPT !.pc = "panic", !.queue = dequeue(@)])
            /\ UNCHANGED <<rng, oracle>>
       ELSE \E v \in Int63nValues(rng, oracle, QueueDrawArg(Frame)) :
               /\ SetFrame(QueueRound(Frame, v))
               /\ DrawStep(v)
    /\ UNCHANGED <<run, engineVars>>

\* the caller runs the same election once more, on a candidate array built anew
Rerun ==
    /\ elect.pc \in {"done", "panic", "hang"}
    /\ run.no = 1
    /\ run' = [run EXCEPT !.no = 2, !.firstPc = elect.pc, !.first = result]
    /\ cs' = BuildCandidates(run.points)
    /\ elect' = ElectStart(elect.variant, [number |-> elect.number, isBIP2 |-> elect.isBIP2])
    /\ queue' = setQueueAsCandidates(0)
    /\ result' = NoResult
    /\ UNCHANGED <<rng, oracle, engineVars>>

NextElect == BIP3Begin \/ BIP3Step \/ QueueBegin \/ QueueStep \/ Rerun

SpecElect == InitElect /\ [][NextElect]_vars

(***************************************************************************)
(* An election run to its end on the output stream of its seed: the loop   *)
(* of the variant, stream[k] being the k-th raw output of the generator.   *)
(***************************************************************************)
RECURSIVE RunBIP3(_, _, _)
RunBIP3(f, stream, k) ==
    IF f.pc # "loop" THEN f
    ELSE IF BIP3DrawArg(f) <= 0 THEN [f EXCEPT !.pc = "panic"]
    ELSE RunBIP3(BIP3Round(f, stream[k] % BIP3DrawArg(f)), stream, k + 1)

RECURSIVE RunQueue(_, _, _)
RunQueue(f, stream, k) ==
    IF f.pc # "loop" THEN f
    ELSE IF ~QueueDraws(f) THEN RunQueue(QueueRound(f, 0), stream, k)
    ELSE IF QueueDrawArg(f) <= 0 THEN [f EXCEPT !.pc = "panic"]
    ELSE RunQueue(QueueRound(f, stream[k] % QueueDrawArg(f)), stream, k + 1)

\* SelectBlockCreator: the candidate array of the stakers with their points, and
\* the variant the fork height selects; no staker, no result
SelectBlockCreator(isBIP3, stks, points, stream) ==
    LET c0 == AddAll(NewCandidates,
                     [i \in 1 .. Len(stks) |->
                         [address |-> stks[i], point |-> points[stks[i]], val |-> 0]])
    IN  IF stks = <<>> THEN [pc |-> "done", result |-> NoResult]
        ELSE IF isBIP3 THEN RunBIP3(BIP3Enter(c0), stream, 1)
        ELSE RunQueue(QueueEnter(c0), stream, 1)

(***************************************************************************)
(* consensus/bsrr: configuration, chain reader and headers.                *)
(*                                                                         *)
(* The chain is the canonical chain 0 .. env.head; the block at height n   *)
(* has hash n, parent hash n - 1 and time n * Period.  env.lost are the    *)
(* heights whose header the chain reader does not have, env.pruned the     *)
(* heights without block and state.                                        *)
(***************************************************************************)
Epoch == 2          \* c.config.Epoch
Period == 2         \* c.config.Period

MaxRank == 7        \* ranks handed to getDelay
MaxHeight == 2 * Epoch + 2

extraVanity == 32
extraSeal == 65
diffWithoutStaker == 1234

ErrNone == "nil"
ErrPanic == "panic"
ErrUnknownAncestor == "unknown ancestor"
errUnauthorizedSigner == "unauthorized signer"
ErrFutureBlock == "block in the future"
errMissingVanity == "extra-data 32 byte vanity prefix missing"
errMissingSignature == "extra-data 65 byte signature suffix missing"
errExtraSigners == "non-checkpoint block contains extra signer list"
errInvalidCheckpointSigners == "invalid signer list on checkpoint block"
errInvalidMixDigest == "non-zero mix digest"
errInvalidUncleHash == "non empty uncle hash"
errInvalidNonce == "invalid nonce"
errForkHash == "fork hash mismatch"
ErrInvalidTimestamp == "invalid timestamp"
errUnknownBlock == "unknown block"
errInvalidDifficulty == "invalid difficulty"
errStakingList == "not found staking list"
errFailedStakingList == "failed to get staking list"
errSign == "signing failed"
errGroup == "invalid group"

\* a nil *types.Header, and the &types.Header{} getAncestor returns
NilHeader == [Number |-> -1, Time |-> 0, ParentHash |-> -1]

HeaderAt(n) == [Number |-> n, Time |-> n * Period, ParentHash |-> n - 1]

\* chain.GetHeader(hash, number)
GetHeader(e, hash, number) ==
    IF number >= 0 /\ number <= e.head /\ hash = number /\ number \notin e.lost
    THEN HeaderAt(number) ELSE NilHeader

\* chain.GetHeaderByNumber(number)
GetHeaderByNumber(e, number) ==
    IF number >= 0 /\ number <= e.head /\ number \notin e.lost
    THEN HeaderAt(number) ELSE NilHeader

\* chain.HasBlockAndState(hash, number)
HasBlockAndState(e, hash, number) ==
    number >= 0 /\ number <= e.head /\ hash = number /\ number \notin e.pruned

\* the loop of getAncestor, lines 707-710
RECURSIVE AncestorWalk(_, _, _)
AncestorWalk(e, target, targetNumber) ==
    IF target # NilHeader /\ target.Number > 0 /\ target.Number > targetNumber
    THEN AncestorWalk(e, GetHeader(e, target.ParentHash, target.Number - 1), targetNumber)
    ELSE target

getAncestor(e, n, header) ==
    LET target == AncestorWalk(e, header, header.Number - n)
    IN  IF target = NilHeader
        THEN [target |-> NilHeader, exist |-> FALSE]
        ELSE [target |-> target,
              exist |-> HasBlockAndState(e, target.Number, target.Number)]

\* a getStakeTargetBlock that looks back from the block being built, not from its parent
getStakeTargetBlockFromChild(e, parent) ==
    IF parent = NilHeader THEN [target |-> NilHeader, exist |-> FALSE]
    ELSE LET d == parent.Number \div Epoch
         IN  IF d > 1 THEN getAncestor(e, Epoch - 1, parent)
             ELSE LET targetNumber == IF d = 0 THEN 0 ELSE Epoch
                      target == GetHeaderByNumber(e, targetNumber)
                  IN  [target |-> target,
                       exist |-> target # NilHeader
                                 /\ HasBlockAndState(e, targetNumber, targetNumber)]

getStakeTargetBlock(e, parent) ==
    IF parent = NilHeader THEN [target |-> NilHeader, exist |-> FALSE]
    ELSE LET d == parent.Number \div Epoch
         IN  IF d > 1 THEN getAncestor(e, Epoch, parent)
             ELSE LET targetNumber == IF d = 0 THEN 0 ELSE Epoch
                      target == GetHeaderByNumber(e, targetNumber)
                  IN  [target |-> target,
                       exist |-> target # NilHeader
                                 /\ HasBlockAndState(e, targetNumber, targetNumber)]

\* math.Round(ForkFactor * holders) for ForkFactor = ff[1] / ff[2]: half away from zero
RoundFactor(ff, holders) == (2 * ff[1] * holders + ff[2]) \div (2 * ff[2])

\* a getMaxMiningCandidates that lets the rounding reach zero
getMaxMiningCandidatesNoFloor(e, holders) ==
    IF holders = 0 THEN 0
    ELSE LET t == RoundFactor(e.forkFactor, holders)
         IN  IF t > MaxMiner THEN MaxMiner ELSE t

getMaxMiningCandidates(e, holders) ==
    IF holders = 0 THEN 0
    ELSE LET t == RoundFactor(e.forkFactor, holders)
             t1 == IF t = 0 THEN 1 ELSE t
         IN  IF t1 > MaxMiner THEN MaxMiner ELSE t1

\* results[signer] of a Go map: the zero VoteResult when signer is no key
VoteOf(res, signer) ==
    IF signer \in DOMAIN res THEN res[signer] ELSE [Score |-> 0, Rank |-> 0]

\* the election over the stakers of a target block other than genesis: how it
\* ends and the VoteResults; the same for every call (it reseeds the generator
\* from the target's number), and so kept with the chain it belongs to
ElectionOf(isBIP3, stks, points, stream) ==
    LET f == SelectBlockCreator(isBIP3, stks, points, stream)
    IN  [pc |-> f.pc, result |-> f.result]

\* selection.SelectBlockCreator(chain.Config(), target.Number, target.Hash(), stks, stateDB)
ResultsAt(e) == e.elected.result

\* whether that election ends in a run-time panic or not at all
ElectionFails(e) == e.elected.pc # "done"

\* a calcDifficultyAndRank that looks the signer up at a genesis target as well
calcDifficultyAndRankChecked(e, signer, target) ==
    IF target.Number = 0
    THEN IF signer \in e.genesisSigners
         THEN [diff |-> diffWithoutStaker, rank |-> 1]
         ELSE [diff |-> 0, rank |-> -1]
    ELSE IF ~e.stakersOK THEN [diff |-> 0, rank |-> -1]
    ELSE LET results == ResultsAt(e)
             max == getMaxMiningCandidates(e, Cardinality(DOMAIN results))
         IN  IF VoteOf(results, signer).Rank > max
             THEN [diff |-> 0, rank |-> -1]
             ELSE [diff |-> VoteOf(results, signer).Score,
                   rank |-> VoteOf(results, signer).Rank]

calcDifficultyAndRank(e, signer, target) ==
    IF target.Number = 0
    THEN [diff |-> diffWithoutStaker, rank |-> 1]
    ELSE IF ~e.stakersOK THEN [diff |-> 0, rank |-> -1]
    ELSE LET results == ResultsAt(e)
             max == getMaxMiningCandidates(e, Cardinality(DOMAIN results))
         IN  IF VoteOf(results, signer).Rank > max
             THEN [diff |-> 0, rank |-> -1]
             ELSE [diff |-> VoteOf(results, signer).Score,
                   rank |-> VoteOf(results, signer).Rank]

Zeros(n) == [i \in 1 .. n |-> 0]

Max(a, b) == IF a > b THEN a ELSE b

\* an extra that keeps the caller's bytes beyond the vanity
PrepareExtraNoCut(extra) ==
    (IF Len(extra) < extraVanity THEN extra \o Zeros(extraVanity - Len(extra)) ELSE extra)
        \o Zeros(extraSeal)

\* lines 482-487
PrepareExtra(extra) ==
    LET padded == IF Len(extra) < extraVanity
                  THEN extra \o Zeros(extraVanity - Len(extra)) ELSE extra
    IN  SubSeq(padded, 1, extraVanity) \o Zeros(extraSeal)

\* a timestamp that ignores the clock
PrepareTimeNoClock(parentTime, now1, now2) == parentTime + Period

\* a timestamp that is the clock's whatever the parent's
PrepareTimeClockOnly(parentTime, now1, now2) == now2

\* lines 493-498; now1 and now2 are the two readings of time.Now()
PrepareTime(parentTime, now1, now2) ==
    IF parentTime + Period < now1 THEN now2 ELSE parentTime + Period

\* Prepare: the error returned and the header left behind
Prepare(e, header, now2) ==
    LET h0 == [header EXCEPT !.Nonce = 0]
        parent == GetHeader(e, header.ParentHash, header.Number - 1)
        tb == getStakeTargetBlock(e, parent)
        dr == calcDifficultyAndRank(e, e.signer, tb.target)
    IN  IF parent = NilHeader THEN [err |-> ErrUnknownAncestor, header |-> h0]
        ELSE IF ~tb.exist THEN [err |-> ErrUnknownAncestor, header |-> h0]
        ELSE IF tb.target.Number # 0 /\ e.stakersOK /\ ElectionFails(e)
        THEN [err |-> ErrPanic, header |-> h0]
        ELSE IF dr.rank < 1 THEN [err |-> errUnauthorizedSigner, header |-> h0]
        ELSE [err |-> ErrNone,
              header |-> [h0 EXCEPT !.Difficulty = dr.diff,
                                    !.Nonce = dr.rank,
                                    !.Extra = PrepareExtra(header.Extra),
                                    !.MixDigest = 0,
                                    !.Time = PrepareTime(parent.Time, e.now, now2)]]

(***************************************************************************)
(* Signers of a target block, sealing delay, and the checks of Finalize    *)
(* and Seal.  Durations are in milliseconds.                               *)
(***************************************************************************)
Millisecond == 1
Second == 1000 * Millisecond
termDelay == 100 * Millisecond
groupDelay == 1 * Second
commonDiff == 3

\* the elements of a list
Elems(seq) == {seq[i] : i \in DOMAIN seq}

\* the signers named by the extra-data of genesis
getSignersFromExtraData(e) ==
    IF e.genesisSigners = {} THEN [err |-> errExtraSigners, signers |-> {}]
    ELSE [err |-> ErrNone, signers |-> e.genesisSigners]

\* getSigners(chain, target).signersMap()
getSigners(e, target) ==
    IF target.Number < Epoch THEN getSignersFromExtraData(e)
    ELSE IF ~e.stakersOK THEN [err |-> errFailedStakingList, signers |-> {}]
    ELSE [err |-> ErrNone, signers |-> Elems(e.stakers)]

\* ArithmeticGroup.GetGroupOrder: group g covers ranks 1 + (g - 1) * d .. g * d
GetGroupOrder(rank) ==
    IF rank < 1 THEN [err |-> errGroup, order |-> 0]
    ELSE [err |-> ErrNone, order |-> (rank - 1) \div commonDiff + 1]

\* ArithmeticGroup.GetGroupRange
GetGroupRange(groupOrder) ==
    IF groupOrder < 1 THEN [err |-> errGroup, start |-> 0, end |-> 0]
    ELSE [err |-> ErrNone, start |-> 1 + (groupOrder - 1) * commonDiff,
          end |-> groupOrder * commonDiff]

\* a getDelay that counts the places within the group from rank 0
getDelayFromZero(rank) ==
    IF rank <= 1 THEN [err |-> ErrNone, delay |-> 0]
    ELSE [err |-> ErrNone,
          delay |-> (GetGroupOrder(rank).order - 1) * groupDelay + rank * termDelay]

getDelay(rank) ==
    IF rank <= 1 THEN [err |-> ErrNone, delay |-> 0]
    ELSE LET g == GetGroupOrder(rank)
             r == GetGroupRange(g.order)
         IN  IF g.err # ErrNone THEN [err |-> g.err, delay |-> 0]
             ELSE IF r.err # ErrNone THEN [err |-> r.err, delay |-> 0]
             ELSE [err |-> ErrNone,
                   delay |-> (g.order - 1) * groupDelay + (rank - r.start) * termDelay]

\* checks of Finalize that leave the nonce of the header alone
FinalizeChecksNoNonce(e, header) ==
    IF ~e.stakersOK THEN errStakingList
    ELSE IF header.Coinbase = 0 THEN ErrNone
    ELSE LET parent == GetHeader(e, header.ParentHash, header.Number - 1)
             tb == getStakeTargetBlock(e, parent)
             sg == getSigners(e, tb.target)
             dr == calcDifficultyAndRank(e, header.Coinbase, tb.target)
         IN  IF ~tb.exist THEN ErrUnknownAncestor
             ELSE IF sg.err # ErrNone THEN errUnauthorizedSigner
             ELSE IF header.Coinbase \notin sg.signers THEN errUnauthorizedSigner
             ELSE IF tb.target.Number # 0 /\ ElectionFails(e) THEN ErrPanic
             ELSE IF dr.rank < 1 THEN errUnauthorizedSigner
             ELSE IF dr.diff # header.Difficulty THEN errInvalidDifficulty
             ELSE ErrNone

\* the checks of Finalize on the header, lines 512-552, before BIP1
FinalizeChecks(e, header) ==
    IF ~e.stakersOK THEN errStakingList
    ELSE IF header.Coinbase = 0 THEN ErrNone
    ELSE LET parent == GetHeader(e, header.ParentHash, header.Number - 1)
             tb == getStakeTargetBlock(e, parent)
             sg == getSigners(e, tb.target)
             dr == calcDifficultyAndRank(e, header.Coinbase, tb.target)
         IN  IF ~tb.exist THEN ErrUnknownAncestor
             ELSE IF sg.err # ErrNone THEN errUnauthorizedSigner
             ELSE IF header.Coinbase \notin sg.signers THEN errUnauthorizedSigner
             ELSE IF tb.target.Number # 0 /\ ElectionFails(e) THEN ErrPanic
             ELSE IF dr.rank < 1 THEN errUnauthorizedSigner
             ELSE IF dr.diff # header.Difficulty THEN errInvalidDifficulty
             ELSE IF header.Nonce # dr.rank THEN errInvalidNonce
             ELSE ErrNone

\* Seal up to the start of the timed task, lines 608-667: the error returned,
\* the account whose key signed, and the delay in milliseconds; signOK says
\* whether the signer backend signs, clock is time.Now() in milliseconds
SealChecks(e, header, clock, signOK) ==
    LET parent == GetHeader(e, header.ParentHash, header.Number - 1)
        tb == getStakeTargetBlock(e, parent)
        sg == getSigners(e, tb.target)
        dr == calcDifficultyAndRank(e, header.Coinbase, tb.target)
        gd == getDelay(dr.rank)
        fail(err) == [err |-> err, sealer |-> 0, delay |-> 0, signed |-> FALSE]
    IN  IF header.Number = 0 THEN fail(errUnknownBlock)
        ELSE IF parent = NilHeader THEN fail(ErrUnknownAncestor)
        ELSE IF ~tb.exist THEN fail(ErrUnknownAncestor)
        ELSE IF sg.err # ErrNone THEN fail(sg.err)
        ELSE IF e.signer \notin sg.signers THEN fail(errUnauthorizedSigner)
        ELSE IF tb.target.Number # 0 /\ e.stakersOK /\ ElectionFails(e) THEN fail(ErrPanic)
        ELSE IF dr.rank = -1 THEN fail(errUnauthorizedSigner)
        ELSE IF gd.err # ErrNone THEN fail(gd.err)
        ELSE IF ~signOK THEN [fail(errSign) EXCEPT !.signed = TRUE]
        ELSE [err |-> ErrNone, sealer |-> e.signer,
              delay |-> header.Time * Second - clock + gd.delay, signed |-> TRUE]

(***************************************************************************)
(* Header preparation as a state machine.  The chain, the staking state of *)
(* the target block and the configuration are drawn at the start; the      *)
(* engine's signer changes with Authorize and the clock with Tick.  call   *)
(* holds a call and what it returns until the caller has it back.          *)
(***************************************************************************)
Signers == {0} \cup Addresses

StakerLists == {<<>>} \cup {[i \in 1 .. n |-> i] : n \in 2 .. MaxCand}

Streams == {[i \in 1 .. MaxCand |-> 0], [i \in 1 .. MaxCand |-> i]}

ForkFactors == {<<1, 1>>, <<1, 2>>, <<1, 5>>}

\* headers and states the node may lack: none, or those of one height
ChainGaps(head) ==
    {[lost |-> {}, pruned |-> {}]}
        \cup {[lost |-> {k}, pruned |-> {}] : k \in 0 .. head}
        \cup {[lost |-> {}, pruned |-> {k}] : k \in 0 .. head}

\* the extra-data the caller of Prepare passes: byte i at position i
CallerExtras == {[i \in 1 .. n |-> i] : n \in {0, extraVanity - 1, extraVanity, extraVanity + 8}}

\* the header commitNewWork hands to Prepare on top of the current head
NewHeader(e, extra) ==
    [Number |-> e.head + 1, ParentHash |-> e.head, Time |-> 0, Difficulty |-> 0,
     Nonce |-> 7, MixDigest |-> 7, Extra |-> extra]

InitPrepare ==
    /\ \E head \in 0 .. MaxHeight - 1, stks \in StakerLists, stream \in Streams,
          bip3 \in BOOLEAN, ff \in ForkFactors, ok \in BOOLEAN :
          \E gap \in ChainGaps(head) :
             /\ ok \/ (stks = <<>> /\ ff = <<1, 1>> /\ bip3 /\ stream[1] = 0)
             /\ stks = <<>> => (ff = <<1, 1>> /\ bip3 /\ stream[1] = 0)
             /\ ff # <<1, 1>> => stream[1] = 0
             /\ gap.lost \cup gap.pruned # {}
                   => (ok /\ stks = <<1, 2>> /\ ff = <<1, 1>> /\ bip3 /\ stream[1] = 0)
             /\ env = [kind |-> "chain", head |-> head, lost |-> gap.lost,
                       pruned |-> gap.pruned, genesisSigners |-> {1},
                       stakers |-> stks, stakersOK |-> ok,
                       points |-> [a \in Addresses |-> 1 + (a % 2)],
                       stream |-> stream, isBIP3 |-> bip3, forkFactor |-> ff,
                       elected |-> ElectionOf(bip3, stks,
                                              [a \in Addresses |-> 1 + (a % 2)], stream),
                       signer |-> 0, now |-> (head + 1) * Period - 1]
    /\ call = NoCall
    /\ cs = NewCandidates
    /\ queue = setQueueAsCandidates(0)
    /\ result = NoResult
    /\ elect = ElectStart("none", [number |-> 0, isBIP2 |-> FALSE])
    /\ run = [no |-> 0, points |-> <<>>, firstPc |-> "none", first |-> NoResult]
    /\ rng = [seed |-> DefaultSeed, pos |-> 0]
    /\ oracle = [s \in {DefaultSeed} |-> <<>>]

\* the caller has the result of its call
Return ==
    /\ call # NoCall
    /\ call' = NoCall
    /\ UNCHANGED <<env, electVars>>

\* Authorize(signer, signFn)
Authorize(a) ==
    /\ env.kind \in {"chain", "miner"}
    /\ call = NoCall
    /\ a # env.signer
    /\ env' = [env EXCEPT !.signer = a]
    /\ UNCHANGED <<call, electVars>>

\* the clock advances by a second
Tick ==
    /\ env.kind = "chain"
    /\ call = NoCall
    /\ env.now < (env.head + 1) * Period + 1
    /\ env' = [env EXCEPT !.now = @ + 1]
    /\ UNCHANGED <<call, electVars>>

\* Prepare(chain, header) for a header on top of the head; the clock may move
\* on between the two readings of time.Now()
PrepareCall(extra, now2) ==
    /\ env.kind = "chain"
    /\ call = NoCall
    /\ LET hdr == NewHeader(env, extra)
           r == Prepare(env, hdr, now2)
           parent == GetHeader(env, hdr.ParentHash, hdr.Number - 1)
           tb == getStakeTargetBlock(env, parent)
       IN  call' = [op |-> "Prepare", parent |-> parent, target |-> tb.target,
                    exist |-> tb.exist, extra |-> extra, now1 |-> env.now, now2 |-> now2,
                    err |-> r.err, header |-> r.header]
    /\ UNCHANGED <<env, electVars>>

\* CalcDifficulty(chain, time, parent) for any known parent
CalcDifficulty(p) ==
    /\ env.kind = "chain"
    /\ call = NoCall
    /\ LET parent == HeaderAt(p)
           tb == getStakeTargetBlock(env, parent)
       IN  call' = [op |-> "CalcDifficulty", parent |-> parent, target |-> tb.target,
                    exist |-> tb.exist,
                    diff |-> IF ~tb.exist THEN 0
                             ELSE calcDifficultyAndRank(env, env.signer, tb.target).diff]
    /\ UNCHANGED <<env, electVars>>

\* the header a miner with that coinbase hands to Finalize and Seal on top of
\* the head: difficulty and nonce as the election of the target gives them
ClaimedHeader(e, coinbase) ==
    LET tb == getStakeTargetBlock(e, HeaderAt(e.head))
        vote == IF tb.target.Number = 0 \/ ~e.stakersOK
                THEN [Score |-> diffWithoutStaker, Rank |-> 1]
                ELSE VoteOf(ResultsAt(e), coinbase)
    IN  [Number |-> e.head + 1, ParentHash |-> e.head,
         Time |-> Max(e.now, e.head * Period + Period), Difficulty |-> vote.Score,
         Nonce |-> vote.Rank, MixDigest |-> 0, Extra |-> Zeros(extraVanity + extraSeal),
         Coinbase |-> coinbase]

\* the checks of Finalize(chain, header, ...) on such a header
FinalizeCall(coinbase) ==
    /\ env.kind = "chain"
    /\ call = NoCall
    /\ LET hdr == ClaimedHeader(env, coinbase)
           parent == GetHeader(env, hdr.ParentHash, hdr.Number - 1)
           tb == getStakeTargetBlock(env, parent)
       IN  call' = [op |-> "Finalize", parent |-> parent, target |-> tb.target,
                    exist |-> tb.exist, coinbase |-> coinbase,
                    err |-> FinalizeChecks(env, hdr)]
    /\ UNCHANGED <<env, electVars>>

\* Seal(chain, block, results, stop) on such a header, up to the timed task
SealCall(coinbase, signOK) ==
    /\ env.kind = "chain"
    /\ call = NoCall
    /\ LET hdr == ClaimedHeader(env, coinbase)
           parent == GetHeader(env, hdr.ParentHash, hdr.Number - 1)
           tb == getStakeTargetBlock(env, parent)
           r == SealChecks(env, hdr, env.now * Second, signOK)
       IN  call' = [op |-> "Seal", parent |-> parent, target |-> tb.target,
                    exist |-> tb.exist, coinbase |-> coinbase, err |-> r.err,
                    sealer |-> r.sealer, delay |-> r.delay]
    /\ UNCHANGED <<env, electVars>>

\* getDelay(rank)
GetDelayCall(rank) ==
    /\ env.kind = "chain"
    /\ call = NoCall
    /\ call' = [op |-> "getDelay", rank |-> rank, err |-> getDelay(rank).err,
                delay |-> getDelay(rank).delay]
    /\ UNCHANGED <<env, electVars>>

NextPrepare ==
    \/ Return
    \/ \E a \in Signers : Authorize(a)
    \/ Tick
    \/ \E extra \in CallerExtras, now2 \in {env.now, env.now + 1} : PrepareCall(extra, now2)
    \/ \E p \in 0 .. env.head : CalcDifficulty(p)
    \/ \E c \in Signers : FinalizeCall(c)
    \/ \E c \in Signers, signOK \in BOOLEAN : SealCall(c, signOK)
    \/ \E rank \in -1 .. MaxRank : GetDelayCall(rank)

SpecPrepare == InitPrepare /\ [][NextPrepare]_vars

(***************************************************************************)
(* Header verification.  A header under verification carries the fields    *)
(* verifyHeader reads; ForkOK says whether misc.VerifyForkHashes accepts    *)
(* it.  The hash of the header at height n of the chain is n.               *)
(***************************************************************************)
AddressLength == 20     \* common.AddressLength
uncleHash == "empty"    \* types.CalcUncleHash(nil)

verifySeal(e, header, parents) ==
    IF header.Number = 0 THEN errUnknownBlock ELSE ErrNone

verifyCascadingFields(e, header, parents) ==
    IF header.Number = 0 THEN ErrNone
    ELSE LET parent == IF Len(parents) > 0 THEN parents[Len(parents)]
                       ELSE GetHeader(e, header.ParentHash, header.Number - 1)
         IN  IF \/ parent = NilHeader
                \/ parent.Number # header.Number - 1
                \/ parent.Number # header.ParentHash
             THEN ErrUnknownAncestor
             ELSE IF parent.Time + Period > header.Time THEN ErrInvalidTimestamp
             ELSE verifySeal(e, header, parents)

\* a verifyHeader that takes no height for a checkpoint
verifyHeaderNoCheckpoint(e, header, parents) ==
    LET signersBytes == Len(header.Extra) - extraVanity - extraSeal
    IN  IF header.Time > e.now THEN ErrFutureBlock
        ELSE IF Len(header.Extra) < extraVanity THEN errMissingVanity
        ELSE IF Len(header.Extra) < extraVanity + extraSeal THEN errMissingSignature
        ELSE IF signersBytes # 0 THEN errExtraSigners
        ELSE IF header.MixDigest # 0 THEN errInvalidMixDigest
        ELSE IF header.UncleHash # uncleHash THEN errInvalidUncleHash
        ELSE IF header.Number > 0 /\ header.Nonce < 1 THEN errInvalidNonce
        ELSE IF ~header.ForkOK THEN errForkHash
        ELSE verifyCascadingFields(e, header, parents)

\* a verifyHeader that looks at the mix digest before the extra-data
verifyHeaderMixFirst(e, header, parents) ==
    LET checkpoint == header.Number % Epoch = 0
        signersBytes == Len(header.Extra) - extraVanity - extraSeal
    IN  IF header.Time > e.now THEN ErrFutureBlock
        ELSE IF header.MixDigest # 0 THEN errInvalidMixDigest
        ELSE IF Len(header.Extra) < extraVanity THEN errMissingVanity
        ELSE IF Len(header.Extra) < extraVanity + extraSeal THEN errMissingSignature
        ELSE IF ~checkpoint /\ signersBytes # 0 THEN errExtraSigners
        ELSE IF checkpoint /\ signersBytes % AddressLength # 0
        THEN errInvalidCheckpointSigners
        ELSE IF header.UncleHash # uncleHash THEN errInvalidUncleHash
        ELSE IF header.Number > 0 /\ header.Nonce < 1 THEN errInvalidNonce
        ELSE IF ~header.ForkOK THEN errForkHash
        ELSE verifyCascadingFields(e, header, parents)

verifyHeader(e, header, parents) ==
    LET checkpoint == header.Number % Epoch = 0
        signersBytes == Len(header.Extra) - extraVanity - extraSeal
    IN  IF header.Time > e.now THEN ErrFutureBlock
        ELSE IF Len(header.Extra) < extraVanity THEN errMissingVanity
        ELSE IF Len(header.Extra) < extraVanity + extraSeal THEN errMissingSignature
        ELSE IF ~checkpoint /\ signersBytes # 0 THEN errExtraSigners
        ELSE IF checkpoint /\ signersBytes % AddressLength # 0
        THEN errInvalidCheckpointSigners
        ELSE IF header.MixDigest # 0 THEN errInvalidMixDigest
        ELSE IF header.UncleHash # uncleHash THEN errInvalidUncleHash
        ELSE IF header.Number > 0 /\ header.Nonce < 1 THEN errInvalidNonce
        ELSE IF ~header.ForkOK THEN errForkHash
        ELSE verifyCascadingFields(e, header, parents)

\* lengths of extra-data either side of every length rule
ExtraLens ==
    {extraVanity - 1, extraVanity + extraSeal - 1, extraVanity + extraSeal,
     extraVanity + extraSeal + 1, extraVanity + extraSeal + AddressLength}

VerifyHeights == 0 .. Epoch + 1

VerifyTimes(n) == {t \in {n * Period - 1, n * Period, n * Period + 1} : t >= 0}

\* coinbase, account whose key sealed the header, and difficulty: a sealer
\* elected at the target with the difficulty of a genesis target, another
\* account's seal, a coinbase no target authorises, another difficulty
SealParts ==
    {[Coinbase |-> 1, Sealer |-> 1, Difficulty |-> diffWithoutStaker],
     [Coinbase |-> 1, Sealer |-> 2, Difficulty |-> diffWithoutStaker],
     [Coinbase |-> 0, Sealer |-> 0, Difficulty |-> diffWithoutStaker],
     [Coinbase |-> 1, Sealer |-> 1, Difficulty |-> 0]}

\* the headers of height n handed to VerifyHeader
HeadersAt(n) ==
    {h \in [Number : {n}, Time : VerifyTimes(n), ParentHash : {n - 1, n},
            Extra : {Zeros(k) : k \in ExtraLens}, MixDigest : {0, 7},
            UncleHash : {uncleHash, "other"}, Nonce : {0, 1}, ForkOK : BOOLEAN,
            Seal : SealParts] :
        /\ ~h.ForkOK => (h.MixDigest = 0 /\ h.UncleHash = uncleHash /\ h.Nonce = 1)
        /\ h.Seal.Sealer # 1 \/ h.Seal.Difficulty # diffWithoutStaker
              => (h.ForkOK /\ h.MixDigest = 0 /\ h.UncleHash = uncleHash /\ h.Nonce = 1)}

VerifyInputs == UNION {HeadersAt(n) : n \in VerifyHeights}

\* the batch of parents VerifyHeaders passes: none, the parent, or another header
ParentBatches(h) ==
    {<<>>} \cup {<<HeaderAt(n)>> : n \in {h.Number - 1, h.Number} \cap VerifyHeights}

InitVerify ==
    /\ \E lost \in {{}, {Epoch - 1}} :
          env = [kind |-> "verify", head |-> Epoch, lost |-> lost, pruned |-> {},
                 genesisSigners |-> {1}, stakers |-> <<1, 2>>, stakersOK |-> TRUE,
                 points |-> [a \in Addresses |-> 1 + (a % 2)],
                 stream |-> [i \in 1 .. MaxCand |-> 0], isBIP3 |-> TRUE,
                 forkFactor |-> <<1, 1>>,
                 elected |-> ElectionOf(TRUE, <<1, 2>>, [a \in Addresses |-> 1 + (a % 2)],
                                        [i \in 1 .. MaxCand |-> 0]),
                 now |-> Epoch * Period]
    /\ call = NoCall
    /\ cs = NewCandidates
    /\ queue = setQueueAsCandidates(0)
    /\ result = NoResult
    /\ elect = ElectStart("none", [number |-> 0, isBIP2 |-> FALSE])
    /\ run = [no |-> 0, points |-> <<>>, firstPc |-> "none", first |-> NoResult]
    /\ rng = [seed |-> DefaultSeed, pos |-> 0]
    /\ oracle = [s \in {DefaultSeed} |-> <<>>]

\* the clock advances by a second
VerifyTick ==
    /\ env.kind = "verify"
    /\ call = NoCall
    /\ env.now < (Epoch + 1) * Period - 1
    /\ env' = [env EXCEPT !.now = @ + 1]
    /\ UNCHANGED <<call, electVars>>

\* VerifyHeader(chain, header, seal) and the verification of a batch member
VerifyHeader(header, parents) ==
    /\ env.kind = "verify"
    /\ call = NoCall
    /\ call' = [op |-> "VerifyHeader", header |-> header, parents |-> parents,
                err |-> verifyHeader(env, header, parents)]
    /\ UNCHANGED <<env, electVars>>

\* VerifySeal(chain, header)
VerifySeal(header) ==
    /\ env.kind = "verify"
    /\ call = NoCall
    /\ call' = [op |-> "VerifySeal", header |-> header, parents |-> <<>>,
                err |-> verifySeal(env, header, <<>>)]
    /\ UNCHANGED <<env, electVars>>

NextVerify ==
    \/ Return
    \/ VerifyTick
    \/ \E h \in VerifyInputs : \E ps \in ParentBatches(h) : VerifyHeader(h, ps)
    \/ \E h \in VerifyInputs : VerifySeal(h)

SpecVerify == InitVerify /\ [][NextVerify]_vars

(***************************************************************************)
(* Sealing as the miner drives it.  The worker's main loop prepares a      *)
(* header with its coinbase (commitNewWork), finalizes it and hands the    *)
(* task over (commit); the task loop cancels the attempt in flight and     *)
(* calls Seal, which signs and starts a timed task that waits for the      *)
(* delay or for the stop channel and then offers the block to the results  *)
(* channel, which the result loop drains.  Authorize, setBerithbase and    *)
(* the clock interleave freely.  Clock readings are in milliseconds.       *)
(***************************************************************************)
MaxAttempts == 2        \* timed tasks started in one behaviour

\* 10 in the source; the model scales it down so that a full channel is within
\* the bounds
resultQueueSize == 1

\* the step of the clock
TickStep == 5 * termDelay

\* accounts the node holds keys of; 0 is the zero address
MinerAccounts == {1, 2}

NoWork == [stage |-> "none"]

\* the empty common.Hash of taskLoop's prev
NoHash == <<>>

\* engine.SealHash(header): the header without its seal
SealHash(header) ==
    <<header.Number, header.ParentHash, header.Coinbase, header.Time,
      header.Difficulty, header.Nonce>>

\* the header of commitNewWork after Prepare, with the worker's coinbase; its
\* uncle hash is not set before Finalize
MinedHeader(h, coinbase) ==
    [Number |-> h.Number, ParentHash |-> h.ParentHash, Time |-> h.Time,
     Difficulty |-> h.Difficulty, Nonce |-> h.Nonce, MixDigest |-> h.MixDigest,
     Extra |-> h.Extra, Coinbase |-> coinbase, UncleHash |-> "unset"]

\* a select that waits for the timer alone
sealSelectNoStop(stopped, expired) ==
    IF expired THEN {"send"} ELSE {"parked"}

\* the first select of the timed task, lines 671-676: the ways it can go given
\* whether stop is closed and whether the timer has fired
sealSelect(stopped, expired) ==
    IF stopped /\ expired THEN {"abandoned", "send"}
    ELSE IF stopped THEN {"abandoned"}
    ELSE IF expired THEN {"send"}
    ELSE {"parked"}

\* the timed task has returned with that outcome; its times matter no more
Returned(a, out) ==
    [a EXCEPT !.pc = "done", !.out = out, !.due = 0, !.delay = 0, !.timer = 0]

\* the timed task after its select went that way
Selected(a, way) ==
    IF way = "abandoned" THEN Returned(a, "abandoned")
    ELSE IF way = "send" THEN [a EXCEPT !.pc = "send", !.timer = 0]
    ELSE [a EXCEPT !.pc = way]

\* close(stopCh) of taskLoop's interrupt(), as every timed task sees it: a
\* task parked in its select is woken; early records that the stop came before
\* the delay had expired
interrupt(attempts, clock) ==
    [i \in DOMAIN attempts |->
        LET a == attempts[i]
            b == [a EXCEPT !.stop = TRUE, !.early = a.pc # "done" /\ clock < a.due]
        IN  IF a.stop THEN a
            ELSE IF a.pc = "parked"
            THEN CHOOSE n \in {Selected(b, w) : w \in sealSelect(TRUE, FALSE)} : TRUE
            ELSE b]

\* an attempt whose signature is left for the end of the wait
newAttemptUnsigned(header, r, clock) ==
    [coinbase |-> header.Coinbase, sealer |-> r.sealer, delay |-> r.delay,
     due |-> clock + r.delay, stop |-> FALSE, early |-> FALSE, signed |-> FALSE,
     pc |-> "spawned", timer |-> 0, out |-> "none", sent |-> 0, header |-> header]

\* the attempt a successful Seal leaves behind, lines 662-685: signed with the
\* engine's signer, its timed task started
newAttempt(header, r, clock) ==
    [coinbase |-> header.Coinbase, sealer |-> r.sealer, delay |-> r.delay,
     due |-> clock + r.delay, stop |-> FALSE, early |-> FALSE, signed |-> r.signed,
     pc |-> "spawned", timer |-> 0, out |-> "none", sent |-> 0, header |-> header]

InitSeal ==
    /\ env = [kind |-> "miner", head |-> Epoch, lost |-> {}, pruned |-> {},
              genesisSigners |-> MinerAccounts, stakers |-> <<1, 2>>,
              stakersOK |-> TRUE, points |-> [a \in Addresses |-> 1 + (a % 2)],
              stream |-> [i \in 1 .. MaxCand |-> 0], isBIP3 |-> TRUE,
              forkFactor |-> <<1, 1>>,
              elected |-> ElectionOf(TRUE, <<1, 2>>, [a \in Addresses |-> 1 + (a % 2)],
                                     [i \in 1 .. MaxCand |-> 0]),
              signer |-> 0, coinbase |-> 0,
              clock |-> (Epoch + 1) * Period * Second - TickStep,
              now |-> ((Epoch + 1) * Period * Second - TickStep) \div Second,
              work |-> NoWork, prev |-> NoHash, attempts |-> <<>>, results |-> <<>>]
    /\ call = NoCall
    /\ cs = NewCandidates
    /\ queue = setQueueAsCandidates(0)
    /\ result = NoResult
    /\ elect = ElectStart("none", [number |-> 0, isBIP2 |-> FALSE])
    /\ run = [no |-> 0, points |-> <<>>, firstPc |-> "none", first |-> NoResult]
    /\ rng = [seed |-> DefaultSeed, pos |-> 0]
    /\ oracle = [s \in {DefaultSeed} |-> <<>>]

\* the clock of a sealing node advances; it does not stop while a timer runs
SealTick ==
    /\ env.kind = "miner"
    /\ \/ env.clock < (env.head + 1) * Period * Second + TickStep
       \/ \E i \in DOMAIN env.attempts :
             env.attempts[i].pc = "parked" /\ env.attempts[i].timer > env.clock
    /\ env' = [env EXCEPT !.clock = @ + TickStep,
                          !.now = (env.clock + TickStep) \div Second]
    /\ UNCHANGED <<call, electVars>>

\* worker.setBerithbase(addr)
setBerithbase(addr) ==
    /\ env.kind = "miner"
    /\ addr # env.coinbase
    /\ env' = [env EXCEPT !.coinbase = addr]
    /\ UNCHANGED <<call, electVars>>

\* worker.commitNewWork up to a prepared header; without a coinbase, or when
\* Prepare fails, it returns and nothing has changed.  No work is begun once
\* MaxAttempts timed tasks have been started.
commitNewWork ==
    /\ env.kind = "miner"
    /\ env.work = NoWork
    /\ Len(env.attempts) < MaxAttempts
    /\ env.coinbase # 0
    /\ LET r == Prepare(env, NewHeader(env, Zeros(extraVanity)), env.now)
       IN  /\ r.err = ErrNone
           /\ env' = [env EXCEPT !.work = [stage |-> "prepared",
                                           header |-> MinedHeader(r.header, env.coinbase)]]
    /\ UNCHANGED <<call, electVars>>

\* worker.commit: Finalize, which sets the uncle hash of the header (line
\* 576), then the task is offered on taskCh
commit ==
    /\ env.kind = "miner"
    /\ env.work.stage = "prepared"
    /\ env' = [env EXCEPT !.work = IF FinalizeChecks(env, env.work.header) = ErrNone
                                   THEN [@ EXCEPT !.stage = "task",
                                                  !.header.UncleHash = uncleHash]
                                   ELSE NoWork]
    /\ UNCHANGED <<call, electVars>>

\* worker.taskLoop on a task: a resubmitted task is skipped, otherwise the
\* attempt in flight is interrupted and Seal called; signOK says whether the
\* signer backend signs
taskLoop(signOK) ==
    /\ env.kind = "miner"
    /\ env.work.stage = "task"
    /\ LET header == env.work.header
           r == SealChecks(env, header, env.clock, signOK)
       IN  IF SealHash(header) = env.prev
           THEN env' = [env EXCEPT !.work = NoWork]
           ELSE env' = [env EXCEPT
                           !.work = NoWork,
                           !.prev = SealHash(header),
                           !.attempts =
                               IF r.err = ErrNone
                               THEN Append(interrupt(@, env.clock),
                                           newAttempt(header, r, env.clock))
                               ELSE interrupt(@, env.clock)]
    /\ UNCHANGED <<call, electVars>>

\* the timed task of attempt i reaches its select: time.After(delay) starts the
\* timer, which has fired at once if the delay is not positive
sealWait(i) ==
    /\ env.kind = "miner"
    /\ i \in DOMAIN env.attempts
    /\ env.attempts[i].pc = "spawned"
    /\ LET a == [env.attempts[i] EXCEPT !.timer = env.clock + env.attempts[i].delay]
       IN  \E way \in sealSelect(a.stop, a.delay <= 0) :
              env' = [env EXCEPT !.attempts[i] = Selected(a, way)]
    /\ UNCHANGED <<call, electVars>>

\* the timer of attempt i fires while its task is parked
sealTimer(i) ==
    /\ env.kind = "miner"
    /\ i \in DOMAIN env.attempts
    /\ env.attempts[i].pc = "parked"
    /\ env.clock >= env.attempts[i].timer
    /\ \E way \in sealSelect(FALSE, TRUE) :
          env' = [env EXCEPT !.attempts[i] = Selected(@, way)]
    /\ UNCHANGED <<call, electVars>>

\* a send that waits for room in the channel
sealSendBlocking(i) ==
    /\ env.kind = "miner"
    /\ i \in DOMAIN env.attempts
    /\ env.attempts[i].pc = "send"
    /\ Len(env.results) < resultQueueSize
    /\ env' = [env EXCEPT
                  !.results = Append(@, i),
                  !.attempts[i] = [Returned(@, "published") EXCEPT !.sent = @ + 1]]
    /\ UNCHANGED <<call, electVars>>

\* the second select of the timed task, lines 678-683: the block goes to the
\* results channel if it has room and is dropped otherwise
sealSend(i) ==
    /\ env.kind = "miner"
    /\ i \in DOMAIN env.attempts
    /\ env.attempts[i].pc = "send"
    /\ IF Len(env.results) < resultQueueSize
       THEN env' = [env EXCEPT
                       !.results = Append(@, i),
                       !.attempts[i] = [Returned(@, "published") EXCEPT !.sent = @ + 1]]
       ELSE env' = [env EXCEPT !.attempts[i] = Returned(@, "dropped")]
    /\ UNCHANGED <<call, electVars>>

\* worker.resultLoop takes a block off the results channel
resultLoop ==
    /\ env.kind = "miner"
    /\ env.results # <<>>
    /\ env' = [env EXCEPT !.results = Tail(@)]
    /\ UNCHANGED <<call, electVars>>

NextSeal ==
    \/ \E a \in MinerAccounts : Authorize(a)
    \/ \E a \in MinerAccounts : setBerithbase(a)
    \/ SealTick
    \/ commitNewWork
    \/ commit
    \/ \E signOK \in BOOLEAN : taskLoop(signOK)
    \/ \E i \in 1 .. MaxAttempts : sealWait(i)
    \/ \E i \in 1 .. MaxAttempts : sealTimer(i)
    \/ \E i \in 1 .. MaxAttempts : sealSend(i)
    \/ resultLoop

SpecSeal == InitSeal /\ [][NextSeal]_vars

\* the scheduler runs a timed task that can run, and time passes; nothing
\* makes the result loop take a block
SpecSealFair ==
    /\ SpecSeal
    /\ WF_vars(SealTick)
    /\ \A i \in 1 .. MaxAttempts :
          WF_vars(sealWait(i)) /\ WF_vars(sealTimer(i)) /\ WF_vars(sealSend(i))

(***************************************************************************)
(* Rewards.  Finalize of block N posts the block's reward as a pending     *)
(* entry of the coinbase and moves matured entries of the signers of the   *)
(* ancestor one epoch below to their main balances.  The chain grows by    *)
(* one finalized block at a time; every block leaves a staking list.  The  *)
(* state database keeps, per account, a main balance and a list of pending *)
(* entries in the order they were added.                                   *)
(***************************************************************************)
MaxReward == 2          \* reward of a block, constant over the chain modelled

MaxLedgerHeight == 3 * Epoch + 1

LedgerAccounts == {1, 2}

\* the staking lists a block may leave
LedgerStakers == {<<2>>, <<1, 2>>}

\* state.AddBehindBalance(addr, number, amount)
AddBehindBalance(st, addr, number, amount) ==
    [st EXCEPT !.behind[addr] = Append(@, [Number |-> number, Balance |-> amount])]

\* state.GetFirstBehindBalance(addr)
GetFirstBehindBalance(st, addr) ==
    IF st.behind[addr] = <<>>
    THEN [err |-> TRUE, behind |-> [Number |-> 0, Balance |-> 0]]
    ELSE [err |-> FALSE, behind |-> Head(st.behind[addr])]

\* state.RemoveFirstBehindBalance(addr)
RemoveFirstBehindBalance(st, addr) == [st EXCEPT !.behind[addr] = Tail(@)]

\* a credit of twice the amount
AddBalanceTwice(st, addr, amount) == [st EXCEPT !.balance[addr] = @ + 2 * amount]

\* state.AddBalance(addr, amount)
AddBalance(st, addr, amount) == [st EXCEPT !.balance[addr] = @ + amount]

\* an entry taken for matured whatever its number
MaturedAtOnce(behind, number) == TRUE

\* lines 903-906: the entry is an epoch old at the block of that number
Matured(behind, number) == ~(number < behind.Number + Epoch)

\* the body of the loop of accumulateRewards for one signer, lines 897-916;
\* moved keeps what was moved, for whom and by which block
MoveFirst(st, addr, number) ==
    LET first == GetFirstBehindBalance(st, addr)
    IN  IF first.err THEN st
        ELSE IF ~Matured(first.behind, number) THEN st
        ELSE IF ~(first.behind.Balance > 0) THEN st
        ELSE [RemoveFirstBehindBalance(AddBalance(st, addr, first.behind.Balance), addr)
                 EXCEPT !.moved = @ \cup {[addr |-> addr, number |-> first.behind.Number,
                                            amount |-> first.behind.Balance, at |-> number]}]

\* the chain as a call about that target block sees it: the staking list is
\* the one the target block left
LedgerAt(e, target) ==
    IF target.Number >= 1 /\ target.Number <= e.head
    THEN [e EXCEPT !.stakers = e.stakersAt[target.Number]]
    ELSE e

\* the signers whose pending entries accumulateRewards looks at, lines 885-894
RewardSigners(e, header) ==
    LET anc == getAncestor(e, Epoch, header)
        sg == getSigners(LedgerAt(e, anc.target), anc.target)
    IN  IF ~anc.exist \/ sg.err # ErrNone THEN {} ELSE sg.signers

\* accumulateRewards(chain, state, header) with getReward(config, header) = reward;
\* the signers are independent of one another, so their order does not matter
accumulateRewards(e, st, header, reward) ==
    LET st1 == AddBehindBalance(st, header.Coinbase, header.Number, reward)
        signers == RewardSigners(e, header)
    IN  [balance |-> [a \in LedgerAccounts |->
                         IF a \in signers THEN MoveFirst(st1, a, header.Number).balance[a]
                         ELSE st1.balance[a]],
         behind |-> [a \in LedgerAccounts |->
                        IF a \in signers THEN MoveFirst(st1, a, header.Number).behind[a]
                        ELSE st1.behind[a]],
         moved |-> UNION {MoveFirst(st1, a, header.Number).moved : a \in signers}
                      \cup st1.moved]

\* the signers Finalize accepts as coinbase, lines 528-541
FinalizeSigners(e, header) ==
    LET parent == GetHeader(e, header.ParentHash, header.Number - 1)
        tb == getStakeTargetBlock(e, parent)
        sg == getSigners(LedgerAt(e, tb.target), tb.target)
    IN  IF ~tb.exist \/ sg.err # ErrNone THEN {} ELSE sg.signers

InitReward ==
    /\ \E reward \in 1 .. MaxReward :
          env = [kind |-> "ledger", head |-> 0, lost |-> {}, pruned |-> {},
                 genesisSigners |-> LedgerAccounts, stakers |-> <<>>, stakersOK |-> TRUE,
                 stakersAt |-> <<>>, coinbases |-> <<>>, reward |-> reward,
                 state |-> [balance |-> [a \in LedgerAccounts |-> 0],
                            behind |-> [a \in LedgerAccounts |-> <<>>],
                            moved |-> {}]]
    /\ call = NoCall
    /\ cs = NewCandidates
    /\ queue = setQueueAsCandidates(0)
    /\ result = NoResult
    /\ elect = ElectStart("none", [number |-> 0, isBIP2 |-> FALSE])
    /\ run = [no |-> 0, points |-> <<>>, firstPc |-> "none", first |-> NoResult]
    /\ rng = [seed |-> DefaultSeed, pos |-> 0]
    /\ oracle = [s \in {DefaultSeed} |-> <<>>]

\* Finalize of the next block by an authorised coinbase, and the block joins
\* the chain; stks is the staking list its transactions leave
FinalizeBlock(coinbase, stks) ==
    /\ env.kind = "ledger"
    /\ env.head < MaxLedgerHeight
    /\ LET header == [Number |-> env.head + 1, ParentHash |-> env.head,
                      Time |-> (env.head + 1) * Period, Coinbase |-> coinbase]
       IN  /\ coinbase \in FinalizeSigners(env, header)
           /\ env' = [env EXCEPT
                         !.head = @ + 1,
                         !.stakersAt = Append(@, stks),
                         !.coinbases = Append(@, coinbase),
                         !.state = accumulateRewards(env, @, header, env.reward)]
    /\ UNCHANGED <<call, electVars>>

NextReward == \E coinbase \in LedgerAccounts, stks \in LedgerStakers : FinalizeBlock(coinbase, stks)

SpecReward == InitReward /\ [][NextReward]_vars

(***************************************************************************)
(* The reward schedule.  getReward computes in float64; the model keeps    *)
(* binary floating point with correctly rounded operations (round to       *)
(* nearest, ties to even) and scales the width of the mantissa down.  A    *)
(* value is a fraction [n, d] with d > 0.                                  *)
(***************************************************************************)
FloatBits == 8          \* mantissa of a float; 53 in float64

MaxRewardPeriod == 12   \* block period of a configuration, in seconds

\* the program's constants of getReward; blockNumberAt1Year is 3150000 and
\* blockSectionDivisionNumber 7370000 in the source: the model scales the two
\* down, and the decimal places kept (10 in the source) with them
blockNumberAt1Year == 3
defaultReward == 26
additionalReward == 5
blockSectionDivisionNumber == 4
DefaultBlockCreationSec == 10
RewardPlaces == 2

Rat(n, d) == [n |-> n, d |-> d]

\* n / d in lowest terms of two
RECURSIVE Halved(_, _)
Halved(n, d) ==
    IF n # 0 /\ n % 2 = 0 /\ d % 2 = 0 THEN Halved(n \div 2, d \div 2) ELSE Rat(n, d)

\* n / d = (n' / d') * 2^e with 2^(FloatBits - 1) <= n' / d' < 2^FloatBits
RECURSIVE Scaled(_, _, _)
Scaled(n, d, e) ==
    IF n >= 2 ^ FloatBits * d THEN Scaled(n, 2 * d, e + 1)
    ELSE IF n < 2 ^ (FloatBits - 1) * d THEN Scaled(2 * n, d, e - 1)
    ELSE [n |-> n, d |-> d, e |-> e]

\* the integer nearest to n / d, a tie going to the even one
RoundHalfEven(n, d) ==
    LET q == n \div d
        r == n % d
    IN  IF 2 * r < d THEN q
        ELSE IF 2 * r > d THEN q + 1
        ELSE IF q % 2 = 0 THEN q ELSE q + 1

\* the float nearest to the fraction q
Fl(q) ==
    IF q.n = 0 THEN Rat(0, 1)
    ELSE LET h == Halved(IF q.n < 0 THEN -q.n ELSE q.n, q.d)
             s == Scaled(h.n, h.d, 0)
             m == RoundHalfEven(s.n, s.d)
             v == IF s.e >= 0 THEN Rat(m * 2 ^ s.e, 1) ELSE Halved(m, 2 ^ (-s.e))
         IN  IF q.n < 0 THEN Rat(-v.n, v.d) ELSE v

\* float64(n)
Float(n) == Fl(Rat(n, 1))

FMul(a, b) == Fl(Rat(a.n * b.n, a.d * b.d))

FDiv(a, b) == Fl(Rat(a.n * b.d, a.d * b.n))

FAdd(a, b) == Fl(Rat(a.n * b.d + b.n * a.d, a.d * b.d))

FSub(a, b) == Fl(Rat(a.n * b.d - b.n * a.d, a.d * b.d))

FLeq(a, b) == a.n * b.d <= b.n * a.d

\* math.Round of a float that is not negative: halves away from zero
MathRound(a) == Float((2 * a.n + a.d) \div (2 * a.d))

\* int64(a) of a float that is not negative: the fraction is cut off
Int64OfFloat(a) == a.n \div a.d

\* getReward(config, header) in units of 10^(18 - RewardPlaces) base units, with
\* config.Bsrr.Rewards = rewards, config.Bsrr.Period = period and
\* header.Number = number
getReward(rewards, period, number) ==
    IF number < rewards THEN 0
    ELSE LET correctionValue == FDiv(Float(period), Float(DefaultBlockCreationSec))
             correctedBlockNumber == FMul(Float(number), correctionValue)
             addtional == IF FLeq(correctedBlockNumber, Float(blockNumberAt1Year))
                          THEN Float(additionalReward) ELSE Float(0)
             sections == MathRound(FDiv(correctedBlockNumber,
                                        Float(blockSectionDivisionNumber)))
             reward == FMul(FAdd(FSub(Float(defaultReward), FMul(sections, Rat(1, 2))),
                                 addtional),
                            correctionValue)
         IN  IF FLeq(reward, Rat(0, 1)) THEN 0
             ELSE Int64OfFloat(FMul(reward, Float(10 ^ RewardPlaces)))

\* the heights a reward is asked for: the first blocks, and those around the
\* section where the schedule reaches zero
RewardNumbers ==
    0 .. 2 * blockSectionDivisionNumber
        \cup {2 * defaultReward * blockSectionDivisionNumber + k : k \in -4 .. 4}

InitRewardSchedule ==
    /\ \E rewards \in {0, blockSectionDivisionNumber}, period \in 1 .. MaxRewardPeriod :
          env = [kind |-> "schedule", rewards |-> rewards, period |-> period]
    /\ call = NoCall
    /\ cs = NewCandidates
    /\ queue = setQueueAsCandidates(0)
    /\ result = NoResult
    /\ elect = ElectStart("none", [number |-> 0, isBIP2 |-> FALSE])
    /\ run = [no |-> 0, points |-> <<>>, firstPc |-> "none", first |-> NoResult]
    /\ rng = [seed |-> DefaultSeed, pos |-> 0]
    /\ oracle = [s \in {DefaultSeed} |-> <<>>]

\* getReward(config, header) for a header of that number
GetRewardCall(number) ==
    /\ env.kind = "schedule"
    /\ call = NoCall
    /\ call' = [op |-> "getReward", number |-> number,
                reward |-> getReward(env.rewards, env.period, number)]
    /\ UNCHANGED <<env, electVars>>

NextRewardSchedule ==
    \/ Return
    \/ \E number \in RewardNumbers : GetRewardCall(number)

SpecRewardSchedule == InitRewardSchedule /\ [][NextRewardSchedule]_vars

(***************************************************************************)
(* The Point Calculator, staking.CalcPointBigint.  The reference block is  *)
(* computed in float64 and cut to an int64, the rest in big.Int.           *)
(***************************************************************************)
MaxStake == 8        \* stakes are 0 .. MaxStake coins, top-ups -MaxStake .. MaxStake
MaxNowBlock == 10    \* the block a point is computed at
MaxStakeBlock == 2   \* the block of the last staking

\* 3600000 in the source: the model scales the blocks of a year down
BlockYear == 36

\* the block periods of the model: those whose correction value is a binary
\* fraction.  float64 computes the reference block of every period from 1 to
\* 36000000 without a rounding that changes the int64, and so does the model
\* for these periods.
PointPeriods == {5, 10, 20, 40, 80}

\* a division that rounds the quotient of two positive numbers up
BigDivUp(x, y) == IF y > 0 THEN (x + y - 1) \div y ELSE -(x \div (-y))

\* big.Int Div: Euclidean division, the remainder is never negative; y # 0
BigDiv(x, y) == IF y > 0 THEN x \div y ELSE -(x \div (-y))

\* a reference block that rounds the quotient to the nearest integer
referenceBlockRounded(period) ==
    LET q == FDiv(Float(BlockYear), FDiv(Float(period), Float(DefaultBlockCreationSec)))
    IN  (2 * q.n + q.d) \div (2 * q.d)

\* referenceBlock := int64(BlockYear / correctionValue)
referenceBlock(period) ==
    Int64OfFloat(FDiv(Float(BlockYear), FDiv(Float(period), Float(DefaultBlockCreationSec))))

\* a Point Calculator that gives no advantage to the stake held before
CalcPointNoAdvantage(prevStake, addStake, nowBlock, stakeBlock, period) ==
    IF referenceBlock(period) + stakeBlock = 0 \/ prevStake + addStake = 0
    THEN [pc |-> "panic", point |-> 0]
    ELSE [pc |-> "done", point |-> prevStake + addStake]

\* CalcPointBigint(prevStake, addStake, nowBlock, stakeBlock, period); a division
\* by zero panics
CalcPointBigint(prevStake, addStake, nowBlock, stakeBlock, period) ==
    IF referenceBlock(period) + stakeBlock = 0 \/ prevStake + addStake = 0
    THEN [pc |-> "panic", point |-> 0]
    ELSE LET quotient == BigDiv(nowBlock * 100, referenceBlock(period) + stakeBlock)
             ratio == IF quotient > 100 THEN 100 ELSE quotient
             temp1 == BigDiv(prevStake, prevStake + addStake)
             temp2 == prevStake * temp1
             temp3 == temp2 * ratio
             advantage == BigDiv(temp3, 100)
         IN  [pc |-> "done", point |-> (prevStake + advantage) + addStake]

InitPoint ==
    /\ \E period \in PointPeriods : env = [kind |-> "point", period |-> period]
    /\ call = NoCall
    /\ cs = NewCandidates
    /\ queue = setQueueAsCandidates(0)
    /\ result = NoResult
    /\ elect = ElectStart("none", [number |-> 0, isBIP2 |-> FALSE])
    /\ run = [no |-> 0, points |-> <<>>, firstPc |-> "none", first |-> NoResult]
    /\ rng = [seed |-> DefaultSeed, pos |-> 0]
    /\ oracle = [s \in {DefaultSeed} |-> <<>>]

\* staking.CalcPointBigint(prevStake, addStake, nowBlock, stakeBlock, period) as
\* the test calls it
CalcPointCall(prevStake, addStake, nowBlock, stakeBlock) ==
    /\ env.kind = "point"
    /\ call = NoCall
    /\ call' = [op |-> "CalcPointBigint", prevStake |-> prevStake,
                addStake |-> addStake, nowBlock |-> nowBlock, stakeBlock |-> stakeBlock,
                out |-> CalcPointBigint(prevStake, addStake, nowBlock, stakeBlock,
                                        env.period)]
    /\ UNCHANGED <<env, electVars>>

NextPoint ==
    \/ Return
    \/ \E prevStake \in 0 .. MaxStake, addStake \in -MaxStake .. MaxStake,
          nowBlock \in 0 .. MaxNowBlock, stakeBlock \in 0 .. MaxStakeBlock :
          CalcPointCall(prevStake, addStake, nowBlock, stakeBlock)

SpecPoint == InitPoint /\ [][NextPoint]_vars

(***************************************************************************)
(* The staker set under the transactions of a block: setStakersWithTxs as  *)
(* Finalize runs it on every node that processes the block.  The type      *)
(* staking.Stakers, the job-wallet tags and the state database are not     *)
(* among the sources; they follow the specification: an ordered set of     *)
(* addresses, kept in ascending order.                                     *)
(***************************************************************************)
MaxStakersBlock == 2    \* the blocks 1 .. MaxStakersBlock are processed

\* the block from which an unstaking transaction removes its sender
BIP1Block == 2

\* common.UnitForBer, the base units of one coin (10^18 in the chain)
UnitForBer == 2

StakerAccounts == {1, 2}

Nodes == {1, 2}

Main == "Main"

Stake == "Stake"

\* the transactions a block is made of: any sender with any pair of job-wallet
\* tags, and one transaction whose signature does not verify
Transactions ==
    [from : StakerAccounts, base : {Main, Stake}, target : {Main, Stake}, signed : {TRUE}]
        \cup {[from |-> 1, base |-> Main, target |-> Stake, signed |-> FALSE]}

BlockTransactions ==
    {<<>>} \cup {<<a>> : a \in Transactions}
           \cup {<<a, b>> : a \in Transactions, b \in Transactions}

\* the stake balance every account has in the state after the block's
\* transactions and in the state of the parent, in base units, and the block of
\* its last staking
StateDBs ==
    {[nil |-> FALSE, stake |-> s[1], prevStake |-> s[2], updated |-> 0] :
        s \in {<<0, 0>>, <<1, 0>>, <<UnitForBer, 0>>, <<2 * UnitForBer + 1, UnitForBer>>}}

\* the state a replay of old blocks passes: none
NilState == [nil |-> TRUE, stake |-> 0, prevStake |-> 0, updated |-> 0]

\* the period of the chain configuration
StakersPeriod == 10

NewStakers == <<>>

IsContain(stks, addr) == \E i \in 1 .. Len(stks) : stks[i] = addr

\* a Put that keeps the addresses in the order they were put
PutAtEnd(stks, addr) == IF IsContain(stks, addr) THEN stks ELSE Append(stks, addr)

Put(stks, addr) ==
    IF IsContain(stks, addr) THEN stks
    ELSE SelectSeq(stks, LAMBDA a : a < addr) \o <<addr>>
            \o SelectSeq(stks, LAMBDA a : a > addr)

Remove(stks, addr) == SelectSeq(stks, LAMBDA a : a # addr)

AsList(stks) == stks

\* the staker sets over the accounts
PriorStakers == {<<>>, <<1>>, <<2>>, <<1, 2>>}

IsBIP1(number) == number >= BIP1Block

\* stkChanged[addr] = isAdd
Assign(changed, addr, isAdd) ==
    [a \in DOMAIN changed \cup {addr} |-> IF a = addr THEN isAdd ELSE changed[a]]

\* a change map that takes an unstaking before BIP1 as one after it
RECURSIVE stkChangedAnyBlock(_, _, _)
stkChangedAnyBlock(txs, number, changed) ==
    IF txs = <<>> THEN changed
    ELSE LET msg == Head(txs)
         IN  stkChangedAnyBlock(Tail(txs), number,
                 IF msg.base = Main /\ msg.target = Main THEN changed
                 ELSE IF msg.base = Stake /\ msg.target = Main
                      THEN Assign(changed, msg.from, FALSE)
                 ELSE IF msg.base = Main /\ msg.target = Stake
                      THEN Assign(changed, msg.from, TRUE)
                 ELSE changed)

\* the loop over txs of setStakersWithTxs, lines 1054-1074: the change map
RECURSIVE stkChanged(_, _, _)
stkChanged(txs, number, changed) ==
    IF txs = <<>> THEN changed
    ELSE LET msg == Head(txs)
         IN  stkChanged(Tail(txs), number,
                 IF msg.base = Main /\ msg.target = Main THEN changed
                 ELSE IF IsBIP1(number) /\ msg.base = Stake /\ msg.target = Main
                      THEN Assign(changed, msg.from, FALSE)
                 ELSE IF msg.base = Main /\ msg.target = Stake
                      THEN Assign(changed, msg.from, TRUE)
                 ELSE changed)

\* the orders in which a range over a map with these keys may visit them
RangeOrders(keys) ==
    {order \in [1 .. Cardinality(keys) -> keys] :
        \A i, j \in 1 .. Cardinality(keys) : order[i] = order[j] => i = j}

\* the point of addr, lines 1078-1088: computed only for a stake balance above
\* zero, from the balances in whole coins
pointOf(st, number) ==
    IF ~st.nil /\ st.stake > 0
    THEN LET currentStkBal == BigDiv(st.stake, UnitForBer)
             prevStkBal == BigDiv(st.prevStake, UnitForBer)
             additionalStkBal == currentStkBal - prevStkBal
         IN  [called |-> TRUE, prevStake |-> prevStkBal, addStake |-> additionalStkBal,
              out |-> CalcPointBigint(prevStkBal, additionalStkBal, number, st.updated,
                                      StakersPeriod)]
    ELSE [called |-> FALSE, prevStake |-> 0, addStake |-> 0,
          out |-> [pc |-> "done", point |-> 0]]

\* the loop over stkChanged, lines 1076-1099, in the order the range visits the
\* map: with a state, the point of the address is set; then the address is put
\* or removed.  A panic of the Point Calculator ends the loop where it is.
RECURSIVE rangeStkChanged(_, _, _, _, _)
rangeStkChanged(order, changed, st, number, node) ==
    IF order = <<>> THEN node
    ELSE LET addr == Head(order)
             p == pointOf(st, number)
         IN  IF ~st.nil /\ p.out.pc = "panic"
             THEN [node EXCEPT !.pc = "panic", !.calls = @ \cup {p}]
             ELSE rangeStkChanged(Tail(order), changed, st, number,
                      [node EXCEPT
                          !.stks = IF changed[addr] THEN Put(@, addr) ELSE Remove(@, addr),
                          !.points = IF st.nil THEN @
                                     ELSE Assign(@, addr, p.out.point),
                          !.calls = IF st.nil \/ ~p.called THEN @ ELSE @ \cup {p}])

\* setStakersWithTxs(state, chain, stks, txs, header) on a node whose chain has
\* the parent header and its state or has not (view), the range over the change
\* map visiting its keys in the given order
setStakersWithTxs(node, st, view, txs, number, order) ==
    IF view = "noParent" THEN [node EXCEPT !.pc = "ErrUnknownAncestor"]
    ELSE IF view = "noState" THEN [node EXCEPT !.pc = "errMissingState"]
    ELSE IF \E i \in 1 .. Len(txs) : ~txs[i].signed THEN [node EXCEPT !.pc = "errSignature"]
    ELSE rangeStkChanged(order, stkChanged(txs, number, << >>), st, number,
                         [node EXCEPT !.pc = "done", !.order = order])

StartNode(stks) ==
    [prior |-> stks, stks |-> stks, pc |-> "done", order |-> <<>>, points |-> << >>,
     calls |-> {}]

InitStakers ==
    /\ \E stks \in PriorStakers :
          env = [kind |-> "stakers", number |-> 0, txs |-> <<>>,
                 state |-> NilState,
                 nodes |-> [n \in Nodes |-> StartNode(stks)]]
    /\ call = NoCall
    /\ cs = NewCandidates
    /\ queue = setQueueAsCandidates(0)
    /\ result = NoResult
    /\ elect = ElectStart("none", [number |-> 0, isBIP2 |-> FALSE])
    /\ run = [no |-> 0, points |-> <<>>, firstPc |-> "none", first |-> NoResult]
    /\ rng = [seed |-> DefaultSeed, pos |-> 0]
    /\ oracle = [s \in {DefaultSeed} |-> <<>>]

\* the next block, its transactions and the state they lead to, reaches the
\* nodes that finalized the one before
NewBlock(txs, st) ==
    /\ env.kind = "stakers"
    /\ env.number < MaxStakersBlock
    /\ \A n \in Nodes : env.nodes[n].pc = "done"
    /\ env' = [env EXCEPT !.number = @ + 1, !.txs = txs, !.state = st,
                          !.nodes = [n \in Nodes |->
                                        [StartNode(env.nodes[n].stks) EXCEPT !.pc = "todo"]]]
    /\ UNCHANGED <<call, electVars>>

\* Finalize on node n, line 567: setStakersWithTxs with the produced state
FinalizeStakers(n, view, order) ==
    /\ env.kind = "stakers"
    /\ env.nodes[n].pc = "todo"
    /\ order \in RangeOrders(DOMAIN stkChanged(env.txs, env.number, << >>))
    /\ env' = [env EXCEPT !.nodes[n] =
                  setStakersWithTxs(@, env.state, view, env.txs, env.number, order)]
    /\ UNCHANGED <<call, electVars>>

NextStakers ==
    \/ \E txs \in BlockTransactions, st \in StateDBs : NewBlock(txs, st)
    \/ \E n \in Nodes, view \in {"ok", "noParent", "noState"},
          order \in UNION {RangeOrders(keys) : keys \in SUBSET StakerAccounts} :
          FinalizeStakers(n, view, order)

SpecStakers == InitStakers /\ [][NextStakers]_vars

(***************************************************************************)
(* The staker registry: getStakers over the cache, the staking database    *)
(* and the chain.  A block is named by its number, the chain being one     *)
(* line of blocks; the staking database follows the specification.         *)
(***************************************************************************)
MaxRegistryBlock == 3   \* the chain has the blocks 0 .. MaxRegistryBlock

\* the size of the cache, 128 * 3 in the source
inmemorySigners == 2

RegistryBlocks == 0 .. MaxRegistryBlock

\* what a node has of a block: the block with its header and the state of its
\* root, the block without that state, or nothing
ChainParts == {"all", "noState", "none"}

\* the transactions of the blocks of the chain
RegistryTransactions ==
    {<<>>,
     <<[from |-> 1, base |-> Main, target |-> Stake, signed |-> TRUE]>>,
     <<[from |-> 2, base |-> Main, target |-> Stake, signed |-> TRUE],
       [from |-> 1, base |-> Stake, target |-> Main, signed |-> TRUE]>>}

\* the chains: every block and state at hand, or one block or state short
Chains ==
    {c \in [RegistryBlocks -> [has : ChainParts, txs : RegistryTransactions]] :
        /\ c[0] = [has |-> "all", txs |-> <<>>]
        /\ \A i, j \in RegistryBlocks : (c[i].has # "all" /\ c[j].has # "all") => i = j}

NoEntry == [has |-> FALSE, bytes |-> <<>>]

NoStakers == [has |-> FALSE, list |-> <<>>]

\* json.Marshal(list): the addresses as strings, in the order of the list
Marshal(list) == [i \in 1 .. Len(AsList(list)) |-> <<"0x", AsList(list)[i]>>]

Unmarshalable(bytes) == \A i \in 1 .. Len(bytes) : bytes[i][1] = "0x"

\* json.Unmarshal(bytes, &list): the addresses are put into a new list
RECURSIVE Unmarshal(_, _)
Unmarshal(bytes, list) ==
    IF bytes = <<>> THEN list ELSE Unmarshal(Tail(bytes), Put(list, Head(bytes)[2]))

\* blocks as the walk collected them, newest first
asWalked(blocks) == blocks

\* lines 997-999: the blocks are turned round, oldest first
reversed(blocks) == [i \in 1 .. Len(blocks) |-> blocks[Len(blocks) + 1 - i]]

\* the loop of getStakers, lines 956-990, from prevNum down: the nearest list
\* in the cache or in the database, or the empty list at genesis; a block that
\* is not there ends the walk with an error made on the spot
RECURSIVE findNearest(_, _, _, _)
findNearest(e, cache, prevNum, blocks) ==
    IF cache[prevNum].has /\ Unmarshalable(cache[prevNum].bytes)
    THEN [pc |-> "found", list |-> Unmarshal(cache[prevNum].bytes, NewStakers),
          blocks |-> blocks, cache |-> cache]
    ELSE LET removed == IF cache[prevNum].has
                        THEN [cache EXCEPT ![prevNum] = NoEntry] ELSE cache
         IN  IF prevNum = 0
             THEN [pc |-> "found", list |-> NewStakers, blocks |-> blocks,
                   cache |-> removed]
             ELSE IF e.store[prevNum].has
             THEN [pc |-> "found", list |-> e.store[prevNum].list, blocks |-> blocks,
                   cache |-> removed]
             ELSE IF e.chain[prevNum].has = "none"
             THEN [pc |-> "unknown anccesstor", list |-> NewStakers, blocks |-> blocks,
                   cache |-> removed]
             ELSE findNearest(e, removed, prevNum - 1, Append(blocks, prevNum))

\* what setStakersWithTxs finds of the parent of a block
ParentView(e, number) ==
    IF e.chain[number - 1].has = "none" THEN "noParent"
    ELSE IF e.chain[number - 1].has = "noState" THEN "noState"
    ELSE "ok"

\* the order in which a range visits the keys, given the order it would visit
\* all accounts in
OrderOf(pref, keys) == SelectSeq(pref, LAMBDA a : a \in keys)

\* checkBlocks, lines 1024-1036: setStakersWithTxs without a state for each
\* block in turn, the first error returned
RECURSIVE checkBlocks(_, _, _, _)
checkBlocks(e, node, blocks, prefs) ==
    IF blocks = <<>> \/ node.pc # "done" THEN node
    ELSE checkBlocks(e,
             setStakersWithTxs(node, NilState, ParentView(e, Head(blocks)),
                 e.chain[Head(blocks)].txs, Head(blocks),
                 OrderOf(prefs[Head(blocks)],
                         DOMAIN stkChanged(e.chain[Head(blocks)].txs, Head(blocks), << >>))),
             Tail(blocks), prefs)

\* c.cache.Add(hash, bytes): a full cache gives up the entry victim
cacheAdd(cache, hash, bytes, victim) ==
    [h \in RegistryBlocks |->
        IF h = hash THEN [has |-> TRUE, bytes |-> bytes]
        ELSE IF h = victim THEN NoEntry
        ELSE cache[h]]

Cached(cache) == {h \in RegistryBlocks : cache[h].has}

\* the entries a cache may give up when hash is added
Victims(cache, hash) ==
    IF Cardinality(Cached(cache) \ {hash}) >= inmemorySigners
    THEN Cached(cache) \ {hash} ELSE {hash}

\* the end of getStakers, lines 1001-1020: an error of the replay is returned
\* as it is; else the list is added to the cache and committed to the database
\* under the hash asked for
putStakers(e, number, victim, found, replayed) ==
    IF replayed.pc # "done"
    THEN [pc |-> replayed.pc, list |-> NewStakers, blocks |-> found.blocks,
          cache |-> found.cache, store |-> e.store]
    ELSE [pc |-> "done", list |-> replayed.stks, blocks |-> found.blocks,
          cache |-> cacheAdd(found.cache, number, Marshal(replayed.stks), victim),
          store |-> [e.store EXCEPT ![number] = [has |-> TRUE, list |-> replayed.stks]]]

\* getStakers after its loop, lines 991-1020: a list found at the block asked
\* for is returned; else the blocks passed are replayed on the list found
replayStakers(e, number, prefs, victim, found) ==
    IF found.pc # "found"
    THEN [pc |-> found.pc, list |-> NewStakers, blocks |-> found.blocks,
          cache |-> found.cache, store |-> e.store]
    ELSE IF found.blocks = <<>>
    THEN [pc |-> "done", list |-> found.list, blocks |-> <<>>,
          cache |-> found.cache, store |-> e.store]
    ELSE putStakers(e, number, victim, found,
             checkBlocks(e, [StartNode(found.list) EXCEPT !.pc = "done"],
                         reversed(found.blocks), prefs))

\* getStakers(chain, number, hash), lines 946-1021
getStakers(e, number, prefs, victim) ==
    replayStakers(e, number, prefs, victim, findNearest(e, e.cache, number, <<>>))

InitRegistry ==
    /\ \E chain \in Chains :
          env = [kind |-> "registry", chain |-> chain,
                 cache |-> [h \in RegistryBlocks |-> NoEntry],
                 store |-> [h \in RegistryBlocks |-> NoStakers]]
    /\ call = NoCall
    /\ cs = NewCandidates
    /\ queue = setQueueAsCandidates(0)
    /\ result = NoResult
    /\ elect = ElectStart("none", [number |-> 0, isBIP2 |-> FALSE])
    /\ run = [no |-> 0, points |-> <<>>, firstPc |-> "none", first |-> NoResult]
    /\ rng = [seed |-> DefaultSeed, pos |-> 0]
    /\ oracle = [s \in {DefaultSeed} |-> <<>>]

\* c.getStakers(chain, number, hash) for a block of the chain
GetStakersCall(number, prefs, victim) ==
    /\ env.kind = "registry"
    /\ call = NoCall
    /\ \E out \in {getStakers(env, number, prefs, victim)} :
           /\ victim \in Victims(findNearest(env, env.cache, number, <<>>).cache, number)
           /\ call' = [op |-> "getStakers", number |-> number,
                       out |-> [pc |-> out.pc, list |-> out.list],
                       blocks |-> out.blocks,
                       cacheBefore |-> env.cache, storeBefore |-> env.store]
           /\ env' = [env EXCEPT !.cache = out.cache, !.store = out.store]
    /\ UNCHANGED electVars

\* Finalize of the block after number, lines 511-516, when the staking list of
\* the parent, block number, cannot be had: the error of getStakers is replaced
FinalizeWithoutStakers(number, prefs, victim) ==
    /\ env.kind = "registry"
    /\ call = NoCall
    /\ \E out \in {getStakers(env, number, prefs, victim)} :
           /\ victim \in Victims(findNearest(env, env.cache, number, <<>>).cache, number)
           /\ out.pc # "done"
           /\ call' = [op |-> "Finalize", number |-> number,
                       out |-> [pc |-> "errStakingList", list |-> NewStakers],
                       blocks |-> out.blocks,
                       cacheBefore |-> env.cache, storeBefore |-> env.store]
           /\ env' = [env EXCEPT !.cache = out.cache, !.store = out.store]
    /\ UNCHANGED electVars

NextRegistry ==
    \/ Return
    \/ \E number \in RegistryBlocks, victim \in RegistryBlocks,
          prefs \in [1 .. MaxRegistryBlock -> RangeOrders(StakerAccounts)] :
          \/ GetStakersCall(number, prefs, victim)
          \/ FinalizeWithoutStakers(number, prefs, victim)

SpecRegistry == InitRegistry /\ [][NextRegistry]_vars

(***************************************************************************)
(* The work loops of the miner: newWorkLoop, which issues work requests    *)
(* with their interrupt words and keeps the resubmit interval, and         *)
(* mainLoop, which builds the block of a request, commitTransactions       *)
(* reading the word of the request before every transaction.  Time is in   *)
(* units of 100 ms; the float64 arithmetic on the interval, on values      *)
(* below 2^53 nanoseconds, is taken as exact, then cut to an integer.      *)
(***************************************************************************)
MaxWork == 3          \* the work requests issued
MaxPending == 2       \* the pending transactions of one account group

minRecommitInterval == 10      \* 1 * time.Second
maxRecommitInterval == 150     \* 15 * time.Second
intervalAdjustBias == 2        \* 200 * 1000.0 * 1000.0 nanoseconds

\* the size of the channel of interval adjustments, 10 in the source
resubmitAdjustChanSize == 2

commitInterruptNone == 0

commitInterruptNewHead == 1

commitInterruptResubmit == 2

\* the intervals a user configures: half a second, one, two and twenty seconds
UserIntervals == {5, 10, 20, 200}

\* an interval taken as it is given
sanitizeNothing(interval) == interval

\* lines 218-221 and 374-377: an interval below the minimum is raised to it
sanitize(interval) ==
    IF interval < minRecommitInterval THEN minRecommitInterval ELSE interval

\* recalcRecommit, lines 324-344, the ratio in tenths: the new interval
recalcRecommit(recommit, minRecommit, tenths, inc) ==
    IF inc
    THEN LET num == 9 * recommit * tenths + 10 * recommit + intervalAdjustBias * tenths
             den == 10 * tenths
         IN  IF num > maxRecommitInterval * den THEN maxRecommitInterval
             ELSE num \div den
    ELSE LET num == 9 * recommit + minRecommit - intervalAdjustBias
         IN  IF num < 10 * minRecommit THEN minRecommit ELSE num \div 10

NewWork == [observed |-> commitInterruptNone, empty |-> FALSE, full |-> FALSE,
            tcount |-> 0, pc |-> "sent"]

\* a commit that leaves the word of the request before as it is
commitUnsignalled(e, s) ==
    [e EXCEPT !.words = Append(@, commitInterruptNone),
              !.works = Append(@, NewWork),
              !.interrupt = Len(e.words) + 1,
              !.loop = "send"]

\* the closure commit of newWorkLoop, lines 308-317, up to the send of the
\* request: the signal is stored into the word of the request before, and a
\* new word is made
newWorkLoopCommit(e, s) ==
    [e EXCEPT !.words = Append(IF e.interrupt # 0 THEN [@ EXCEPT ![e.interrupt] = s] ELSE @,
                               commitInterruptNone),
              !.works = Append(@, NewWork),
              !.interrupt = Len(e.words) + 1,
              !.loop = "send"]

InitWork ==
    /\ \E recommit \in UserIntervals :
          env = [kind |-> "work", recommit |-> sanitize(recommit),
                 minRecommit |-> sanitize(recommit), timer |-> FALSE, startCh |-> 1,
                 words |-> <<>>, works |-> <<>>, interrupt |-> 0, loop |-> "select",
                 resubmitAdjustCh |-> <<>>,
                 main |-> [pc |-> "idle", req |-> 0, todo |-> <<>>]]
    /\ call = NoCall
    /\ cs = NewCandidates
    /\ queue = setQueueAsCandidates(0)
    /\ result = NoResult
    /\ elect = ElectStart("none", [number |-> 0, isBIP2 |-> FALSE])
    /\ run = [no |-> 0, points |-> <<>>, firstPc |-> "none", first |-> NoResult]
    /\ rng = [seed |-> DefaultSeed, pos |-> 0]
    /\ oracle = [s \in {DefaultSeed} |-> <<>>]

\* newWorkLoop, case <-w.startCh
LoopStart ==
    /\ env.kind = "work"
    /\ env.loop = "select"
    /\ env.startCh = 1
    /\ Len(env.words) < MaxWork
    /\ env' = [newWorkLoopCommit(env, commitInterruptNewHead) EXCEPT !.startCh = 0]
    /\ UNCHANGED <<call, electVars>>

\* newWorkLoop, case head := <-w.chainHeadCh
LoopChainHead ==
    /\ env.kind = "work"
    /\ env.loop = "select"
    /\ Len(env.words) < MaxWork
    /\ env' = newWorkLoopCommit(env, commitInterruptNewHead)
    /\ UNCHANGED <<call, electVars>>

\* newWorkLoop, case <-timer.C: nothing is done
LoopTimer ==
    /\ env.kind = "work"
    /\ env.loop = "select"
    /\ env.timer
    /\ env' = [env EXCEPT !.timer = FALSE]
    /\ UNCHANGED <<call, electVars>>

\* setRecommitInterval(interval) and newWorkLoop, case interval :=
\* <-w.resubmitIntervalCh
LoopResubmitInterval(interval) ==
    /\ env.kind = "work"
    /\ env.loop = "select"
    /\ env' = [env EXCEPT !.minRecommit = sanitize(interval),
                          !.recommit = sanitize(interval)]
    /\ UNCHANGED <<call, electVars>>

\* newWorkLoop, case adjust := <-w.resubmitAdjustCh
LoopResubmitAdjust ==
    /\ env.kind = "work"
    /\ env.loop = "select"
    /\ env.resubmitAdjustCh # <<>>
    /\ LET adjust == Head(env.resubmitAdjustCh)
       IN  env' = [env EXCEPT
                      !.resubmitAdjustCh = Tail(@),
                      !.recommit = recalcRecommit(env.recommit, env.minRecommit,
                                                  adjust.ratio, adjust.inc)]
    /\ UNCHANGED <<call, electVars>>

\* the request passes from commit (line 318, then the timer is reset) to
\* mainLoop, which runs commitNewWork up to its first commitTransactions:
\* without a coinbase or a prepared header the work ends there; else the empty
\* block is committed and the pending transactions are taken, local ones first
MainNewWork(ready, local, remote) ==
    /\ env.kind = "work"
    /\ env.loop = "send"
    /\ env.main.pc = "idle"
    /\ LET req == env.interrupt
           todo == SelectSeq(<<local, remote>>, LAMBDA n : n > 0)
       IN  env' = [env EXCEPT
                      !.loop = "select",
                      !.timer = TRUE,
                      !.works[req] =
                          IF ~ready THEN [@ EXCEPT !.pc = "refused"]
                          ELSE IF todo = <<>> THEN [@ EXCEPT !.empty = TRUE, !.pc = "snapshot"]
                          ELSE [@ EXCEPT !.empty = TRUE, !.pc = "txs"],
                      !.main = IF ~ready \/ todo = <<>>
                               THEN [pc |-> "idle", req |-> 0, todo |-> <<>>]
                               ELSE [pc |-> "txs", req |-> req, todo |-> todo]]
    /\ UNCHANGED <<call, electVars>>

\* what follows a commitTransactions that returned false: that of the remote
\* transactions, or the commit of the full block
afterTransactions(e) ==
    IF Len(e.main.todo) > 1
    THEN [e EXCEPT !.main.todo = Tail(@)]
    ELSE [e EXCEPT !.works[e.main.req].full = TRUE,
                   !.works[e.main.req].pc = "committed",
                   !.main = [pc |-> "idle", req |-> 0, todo |-> <<>>]]

\* one turn of the loop of commitTransactions, lines 757-848, and its end,
\* 862-866: the word is read; a signal ends the loop, Resubmit sending an
\* increase and going on to the commit, NewHead giving the block up; without a
\* signal a transaction is committed, or there being none left the loop is
\* left for the end of the call
MainCommitTransactions(tenths) ==
    /\ env.kind = "work"
    /\ env.main.pc = "txs"
    /\ LET req == env.main.req
           word == env.words[req]
       IN  IF word # commitInterruptNone
           THEN /\ word = commitInterruptResubmit =>
                       Len(env.resubmitAdjustCh) < resubmitAdjustChanSize
                /\ LET sent == IF word = commitInterruptResubmit
                               THEN [env EXCEPT
                                        !.resubmitAdjustCh =
                                            Append(@, [inc |-> TRUE, ratio |-> tenths])]
                               ELSE env
                       seen == [sent EXCEPT !.works[req].observed = word]
                   IN  env' = IF word = commitInterruptNewHead
                              THEN [seen EXCEPT
                                       !.works[req].pc = "discarded",
                                       !.main = [pc |-> "idle", req |-> 0, todo |-> <<>>]]
                              ELSE afterTransactions(seen)
           ELSE IF Head(env.main.todo) > 0
           THEN /\ tenths = 1
                /\ env' = [env EXCEPT !.main.todo[1] = @ - 1,
                                      !.works[req].tcount = @ + 1]
           ELSE /\ tenths = 1
                /\ env' = [env EXCEPT !.main.pc = "adjust"]
    /\ UNCHANGED <<call, electVars>>

\* the end of commitTransactions, lines 862-866: the decrease is sent on
\* resubmitAdjustCh, a send that waits while the channel is full; the word of
\* the request is not read again
MainSendAdjust ==
    /\ env.kind = "work"
    /\ env.main.pc = "adjust"
    /\ Len(env.resubmitAdjustCh) < resubmitAdjustChanSize
    /\ env' = afterTransactions(
                  [env EXCEPT !.resubmitAdjustCh = Append(@, [inc |-> FALSE, ratio |-> 1]),
                              !.main.pc = "txs"])
    /\ UNCHANGED <<call, electVars>>

NextWork ==
    \/ LoopStart
    \/ LoopChainHead
    \/ LoopTimer
    \/ \E interval \in UserIntervals : LoopResubmitInterval(interval)
    \/ LoopResubmitAdjust
    \/ \E ready \in BOOLEAN, local \in 0 .. MaxPending, remote \in 0 .. MaxPending :
          MainNewWork(ready, local, remote)
    \/ \E tenths \in 1 .. 10 : MainCommitTransactions(tenths)
    \/ MainSendAdjust

SpecWork == InitWork /\ [][NextWork]_vars

(***************************************************************************)
(* The rewards of a chain whose rewards start at a configured block        *)
(***************************************************************************)
RewardsStart == 3    \* config.Bsrr.Rewards of a chain that starts without rewards

\* getReward(config, header) of lines 849-853: zero below config.Bsrr.Rewards;
\* from there on the reward of the schedule, which the ledger keeps constant
getRewardAt(e, number) == IF number < e.rewards THEN 0 ELSE e.reward

InitMaturation ==
    /\ \E reward \in 1 .. MaxReward, rewards \in {1, RewardsStart} :
          env = [kind |-> "ledger", head |-> 0, lost |-> {}, pruned |-> {},
                 genesisSigners |-> LedgerAccounts, stakers |-> <<>>, stakersOK |-> TRUE,
                 stakersAt |-> <<>>, coinbases |-> <<>>, reward |-> reward,
                 rewards |-> rewards,
                 state |-> [balance |-> [a \in LedgerAccounts |-> 0],
                            behind |-> [a \in LedgerAccounts |-> <<>>],
                            moved |-> {}]]
    /\ call = NoCall
    /\ cs = NewCandidates
    /\ queue = setQueueAsCandidates(0)
    /\ result = NoResult
    /\ elect = ElectStart("none", [number |-> 0, isBIP2 |-> FALSE])
    /\ run = [no |-> 0, points |-> <<>>, firstPc |-> "none", first |-> NoResult]
    /\ rng = [seed |-> DefaultSeed, pos |-> 0]
    /\ oracle = [s \in {DefaultSeed} |-> <<>>]

\* Finalize of the next block by an authorised coinbase, lines 566-571: the
\* reward is the one getReward gives for the number of the block
FinalizeScheduled(coinbase, stks) ==
    /\ env.kind = "ledger"
    /\ env.head < MaxLedgerHeight
    /\ LET header == [Number |-> env.head + 1, ParentHash |-> env.head,
                      Time |-> (env.head + 1) * Period, Coinbase |-> coinbase]
       IN  /\ coinbase \in FinalizeSigners(env, header)
           /\ env' = [env EXCEPT
                         !.head = @ + 1,
                         !.stakersAt = Append(@, stks),
                         !.coinbases = Append(@, coinbase),
                         !.state = accumulateRewards(env, @, header,
                                                     getRewardAt(env, header.Number))]
    /\ UNCHANGED <<call, electVars>>

NextMaturation ==
    \E coinbase \in LedgerAccounts, stks \in LedgerStakers : FinalizeScheduled(coinbase, stks)

SpecMaturation == InitMaturation /\ [][NextMaturation]_vars

(***************************************************************************)
(* The task loop of the worker                                             *)
(***************************************************************************)
MaxTasks == 4        \* the tasks taken off taskCh

\* the seal hashes of the tasks offered; prev starts as the empty hash, 0
TaskHashes == {1, 2}

\* an interrupt() that forgets the channel without closing it
forgetStopCh(e) == [e EXCEPT !.stopCh = 0]

\* interrupt() of taskLoop, lines 509-514: the channel in stopCh, if there is
\* one, is closed and stopCh is nil again
closeStopCh(e) ==
    IF e.stopCh # 0
    THEN [e EXCEPT !.closed[e.stopCh] = TRUE, !.stopCh = 0]
    ELSE e

\* stopCh, prev = make(chan struct{}), sealHash, line 532
makeStopCh(e, sealHash) ==
    [e EXCEPT !.closed = Append(@, FALSE), !.stopCh = Len(e.closed) + 1,
              !.prev = sealHash]

InitTask ==
    /\ env = [kind |-> "task", stopCh |-> 0, prev |-> 0, closed |-> <<>>,
              attempts |-> <<>>, taken |-> 0, exited |-> FALSE,
              last |-> [sealHash |-> 0, prev |-> 0, way |-> "none"]]
    /\ call = NoCall
    /\ cs = NewCandidates
    /\ queue = setQueueAsCandidates(0)
    /\ result = NoResult
    /\ elect = ElectStart("none", [number |-> 0, isBIP2 |-> FALSE])
    /\ run = [no |-> 0, points |-> <<>>, firstPc |-> "none", first |-> NoResult]
    /\ rng = [seed |-> DefaultSeed, pos |-> 0]
    /\ oracle = [s \in {DefaultSeed} |-> <<>>]

\* taskLoop, case task := <-w.taskCh, lines 517-544: a task with the seal hash
\* of the task before is passed over; else the attempt in flight is
\* interrupted, a channel made, and Seal called unless the hook skips it; a
\* Seal that returns nil has started its timed task with that channel
TaskTaken(sealHash, skip, sealOK) ==
    /\ env.kind = "task"
    /\ ~env.exited
    /\ env.taken < MaxTasks
    /\ LET e == [env EXCEPT !.taken = @ + 1]
           made == makeStopCh(closeStopCh(e), sealHash)
       IN  IF sealHash = env.prev
           THEN /\ ~skip /\ sealOK
                /\ env' = [e EXCEPT !.last = [sealHash |-> sealHash, prev |-> env.prev,
                                               way |-> "duplicate"]]
           ELSE IF skip
           THEN /\ sealOK
                /\ env' = [made EXCEPT !.last = [sealHash |-> sealHash, prev |-> env.prev,
                                                  way |-> "skipped"]]
           ELSE env' = [made EXCEPT
                           !.attempts = IF sealOK
                                        THEN Append(@, [sealHash |-> sealHash,
                                                        stop |-> made.stopCh,
                                                        pc |-> "select"])
                                        ELSE @,
                           !.last = [sealHash |-> sealHash, prev |-> env.prev,
                                     way |-> IF sealOK THEN "sealed" ELSE "failed"]]
    /\ UNCHANGED <<call, electVars>>

\* the timed task of Seal, berith.go lines 670-684: its select takes the
\* closed stop channel, or the timer that has fired
TaskSealSelect(i, way) ==
    /\ env.kind = "task"
    /\ i \in DOMAIN env.attempts
    /\ env.attempts[i].pc = "select"
    /\ way = "abandoned" => env.closed[env.attempts[i].stop]
    /\ env' = [env EXCEPT !.attempts[i].pc = way]
    /\ UNCHANGED <<call, electVars>>

\* taskLoop, case <-w.exitCh, lines 545-547
TaskExit ==
    /\ env.kind = "task"
    /\ ~env.exited
    /\ env' = [closeStopCh(env) EXCEPT !.exited = TRUE]
    /\ UNCHANGED <<call, electVars>>

NextTask ==
    \/ \E sealHash \in TaskHashes, skip \in BOOLEAN, sealOK \in BOOLEAN :
          TaskTaken(sealHash, skip, sealOK)
    \/ \E i \in 1 .. MaxTasks, way \in {"abandoned", "published"} : TaskSealSelect(i, way)
    \/ TaskExit

SpecTask == InitTask /\ [][NextTask]_vars

(***************************************************************************)
(* Finalize on headers whose difficulty and nonce are the caller's         *)
(***************************************************************************)
\* Finalize(chain, header, state, txs, ...), lines 509-584: what it returns and
\* what it has done to the state; txsOK says whether setStakersWithTxs finds
\* the parent and its state, which it looks up before it changes anything
Finalize(e, header, txsOK) ==
    LET nothing(err) == [err |-> err, block |-> FALSE, stakersSet |-> FALSE,
                         rewarded |-> FALSE]
    IN  IF FinalizeChecks(e, header) # ErrNone THEN nothing(FinalizeChecks(e, header))
        ELSE IF ~txsOK THEN nothing(errStakingList)
        ELSE [err |-> ErrNone, block |-> TRUE, stakersSet |-> TRUE, rewarded |-> TRUE]

\* Finalize on a header on top of the head whose difficulty and nonce differ
\* from the elected ones by these amounts
FinalizeHeader(coinbase, diffOff, nonceOff, txsOK) ==
    /\ env.kind = "chain"
    /\ call = NoCall
    /\ LET claimed == ClaimedHeader(env, coinbase)
           hdr == [claimed EXCEPT !.Difficulty = @ + diffOff, !.Nonce = @ + nonceOff]
       IN  call' = [op |-> "FinalizeHeader", header |-> hdr, txsOK |-> txsOK,
                    out |-> Finalize(env, hdr, txsOK)]
    /\ UNCHANGED <<env, electVars>>

NextFinalize ==
    \/ Return
    \/ \E coinbase \in Addresses, diffOff \in {0, 1}, nonceOff \in {-1, 0, 1},
          txsOK \in BOOLEAN : FinalizeHeader(coinbase, diffOff, nonceOff, txsOK)

SpecFinalize == InitPrepare /\ [][NextFinalize]_vars

(***************************************************************************)
(* The sealing node on top of a head that is a checkpoint or not           *)
(***************************************************************************)
InitPublish ==
    /\ \E head \in {Epoch, Epoch + 1} :
          env = [kind |-> "miner", head |-> head, lost |-> {}, pruned |-> {},
                 genesisSigners |-> MinerAccounts, stakers |-> <<1, 2>>,
                 stakersOK |-> TRUE, points |-> [a \in Addresses |-> 1 + (a % 2)],
                 stream |-> [i \in 1 .. MaxCand |-> 0], isBIP3 |-> TRUE,
                 forkFactor |-> <<1, 1>>,
                 elected |-> ElectionOf(TRUE, <<1, 2>>, [a \in Addresses |-> 1 + (a % 2)],
                                        [i \in 1 .. MaxCand |-> 0]),
                 signer |-> 0, coinbase |-> 0,
                 clock |-> (head + 1) * Period * Second - TickStep,
                 now |-> ((head + 1) * Period * Second - TickStep) \div Second,
                 work |-> NoWork, prev |-> NoHash, attempts |-> <<>>, results |-> <<>>]
    /\ call = NoCall
    /\ cs = NewCandidates
    /\ queue = setQueueAsCandidates(0)
    /\ result = NoResult
    /\ elect = ElectStart("none", [number |-> 0, isBIP2 |-> FALSE])
    /\ run = [no |-> 0, points |-> <<>>, firstPc |-> "none", first |-> NoResult]
    /\ rng = [seed |-> DefaultSeed, pos |-> 0]
    /\ oracle = [s \in {DefaultSeed} |-> <<>>]

SpecPublish == InitPublish /\ [][NextSeal]_vars

(***************************************************************************)
(* Two elections running at once.  Every run has its own candidate array,  *)
(* queue and results; rand.Seed and rand.Int63n work on the one generator  *)
(* of package math/rand, whose output is a fixed function of the seed set  *)
(* last and of the number of draws since.                                  *)
(***************************************************************************)
\* the candidate arrays of the runs
RunInputs == {<<2, 1>>, <<1, 2, 2>>}

\* the output of the generator after a seed, draw by draw: all zero, or rising
RunStreams == {[i \in 1 .. 2 * MaxCand |-> 0], [i \in 1 .. 2 * MaxCand |-> i]}

RunSeeds == {GetSeed(si.isBIP2, si.number) : si \in SeedInputs}

\* selectBlockCreator / selectBIP3BlockCreator up to rand.Seed
RunEnter(variant, points) ==
    IF variant = "bip3" THEN BIP3Enter(BuildCandidates(points))
    ELSE QueueEnter(BuildCandidates(points))

\* whether the next iteration of the loop calls rand.Int63n, and with what
RunDraws(variant, f) == variant = "bip3" \/ QueueDraws(f)

RunDrawArg(variant, f) == IF variant = "bip3" THEN BIP3DrawArg(f) ELSE QueueDrawArg(f)

\* one iteration of the loop, raw being the output of the generator
RunRound(variant, f, raw) ==
    IF ~RunDraws(variant, f) THEN QueueRound(f, 0)
    ELSE IF RunDrawArg(variant, f) <= 0 THEN [f EXCEPT !.pc = "panic"]
    ELSE IF variant = "bip3" THEN BIP3Round(f, raw % RunDrawArg(variant, f))
    ELSE QueueRound(f, raw % RunDrawArg(variant, f))

InitRuns ==
    /\ \E inputs \in [1 .. 2 -> RunInputs], variants \in [1 .. 2 -> {"queue", "bip3"}],
          seeds \in [1 .. 2 -> RunSeeds], streams \in [RunSeeds -> RunStreams] :
          env = [kind |-> "runs", streams |-> streams,
                 runs |-> [p \in 1 .. 2 |->
                              [variant |-> variants[p], points |-> inputs[p],
                               seed |-> seeds[p], pc |-> "start", result |-> NoResult,
                               f |-> [pc |-> "start"]]]]
    /\ rng = [seed |-> DefaultSeed, pos |-> 0]
    /\ call = NoCall
    /\ cs = NewCandidates
    /\ queue = setQueueAsCandidates(0)
    /\ result = NoResult
    /\ elect = ElectStart("none", [number |-> 0, isBIP2 |-> FALSE])
    /\ run = [no |-> 0, points |-> <<>>, firstPc |-> "none", first |-> NoResult]
    /\ oracle = [s \in {DefaultSeed} |-> <<>>]

\* run p enters its elector and seeds the generator, candidates.go lines
\* 61-69 and 107-114
RunSeed(p) ==
    /\ env.kind = "runs"
    /\ env.runs[p].pc = "start"
    /\ \E f \in {RunEnter(env.runs[p].variant, env.runs[p].points)} :
          /\ env' = [env EXCEPT !.runs[p].f = f, !.runs[p].pc = f.pc,
                                !.runs[p].result = f.result]
          /\ rng' = IF f.pc = "panic" THEN rng ELSE Seed(rng, env.runs[p].seed)
    /\ UNCHANGED <<call, cs, queue, result, elect, run, oracle>>

\* run p makes one iteration of its loop, lines 82-94 and 116-162: its draw is
\* the next output of the generator as it stands
RunStep(p) ==
    /\ env.kind = "runs"
    /\ env.runs[p].pc = "loop"
    /\ rng.pos < 2 * MaxCand
    /\ \E f \in {RunRound(env.runs[p].variant, env.runs[p].f,
                          env.streams[rng.seed][rng.pos + 1])} :
          env' = [env EXCEPT !.runs[p].f = f, !.runs[p].pc = f.pc,
                             !.runs[p].result = f.result]
    /\ rng' = IF RunDraws(env.runs[p].variant, env.runs[p].f)
                   /\ RunDrawArg(env.runs[p].variant, env.runs[p].f) > 0
              THEN Int63nRng(rng) ELSE rng
    /\ UNCHANGED <<call, cs, queue, result, elect, run, oracle>>

NextRuns == \E p \in 1 .. 2 : RunSeed(p) \/ RunStep(p)

SpecRuns == InitRuns /\ [][NextRuns]_vars

(***************************************************************************)
(* The signer fields of the engine and their lock.  Authorize runs on the  *)
(* goroutine that starts mining, Prepare on the main loop, Seal on the     *)
(* task loop, CalcDifficulty on whichever caller asks.  An address is an   *)
(* array of bytes, written and read in more than one machine word: it is   *)
(* kept as two halves, and account a has the address <<a, a>>.  read[r] is *)
(* what reader r took last, and whether it held the lock.                  *)
(***************************************************************************)
CredAccounts == {1, 2}

CredReaders == {"Prepare", "Seal", "CalcDifficulty"}

NoRead == [done |-> FALSE, held |-> FALSE, signer |-> <<0, 0>>, signFn |-> 0]

InitCreds ==
    /\ env = [kind |-> "creds", signer |-> <<0, 0>>, signFn |-> 0,
              lock |-> [writer |-> FALSE, readers |-> 0],
              authorize |-> [pc |-> "idle", signer |-> 0],
              seal |-> "idle",
              read |-> [r \in CredReaders |-> NoRead]]
    /\ call = NoCall
    /\ cs = NewCandidates
    /\ queue = setQueueAsCandidates(0)
    /\ result = NoResult
    /\ elect = ElectStart("none", [number |-> 0, isBIP2 |-> FALSE])
    /\ run = [no |-> 0, points |-> <<>>, firstPc |-> "none", first |-> NoResult]
    /\ rng = [seed |-> DefaultSeed, pos |-> 0]
    /\ oracle = [s \in {DefaultSeed} |-> <<>>]

\* the read of c.signer by a reader that took no lock
readSignerUnlocked(e, r) ==
    [e EXCEPT !.read[r] = [done |-> TRUE, held |-> FALSE, signer |-> e.signer,
                           signFn |-> 0]]

\* c.lock.Lock() of Authorize(a, signFn of a), line 593
AuthorizeLock(a) ==
    /\ env.kind = "creds"
    /\ env.authorize.pc = "idle"
    /\ ~env.lock.writer /\ env.lock.readers = 0
    /\ env' = [env EXCEPT !.lock.writer = TRUE,
                          !.authorize = [pc |-> "locked", signer |-> a]]
    /\ UNCHANGED <<call, electVars>>

\* c.signer = signer, line 596, one half at a time, and c.signFn = signFn,
\* line 597
AuthorizeWrite ==
    /\ env.kind = "creds"
    /\ env.authorize.pc \in {"locked", "half", "signer"}
    /\ env' = CASE env.authorize.pc = "locked" ->
                       [env EXCEPT !.signer[1] = env.authorize.signer,
                                   !.authorize.pc = "half"]
                [] env.authorize.pc = "half" ->
                       [env EXCEPT !.signer[2] = env.authorize.signer,
                                   !.authorize.pc = "signer"]
                [] OTHER ->
                       [env EXCEPT !.signFn = env.authorize.signer,
                                   !.authorize.pc = "signFn"]
    /\ UNCHANGED <<call, electVars>>

\* the deferred c.lock.Unlock(), line 594
AuthorizeUnlock ==
    /\ env.kind = "creds"
    /\ env.authorize.pc = "signFn"
    /\ env' = [env EXCEPT !.lock.writer = FALSE, !.authorize.pc = "idle"]
    /\ UNCHANGED <<call, electVars>>

\* c.lock.RLock() of Seal, line 615
SealRLock ==
    /\ env.kind = "creds"
    /\ env.seal = "idle"
    /\ ~env.lock.writer
    /\ env' = [env EXCEPT !.lock.readers = @ + 1, !.seal = "locked"]
    /\ UNCHANGED <<call, electVars>>

\* signer, signFn := c.signer, c.signFn, line 616
SealRead ==
    /\ env.kind = "creds"
    /\ env.seal = "locked"
    /\ env' = [env EXCEPT !.read["Seal"] = [done |-> TRUE, held |-> TRUE,
                                            signer |-> env.signer,
                                            signFn |-> env.signFn],
                          !.seal = "read"]
    /\ UNCHANGED <<call, electVars>>

\* c.lock.RUnlock(), line 617
SealRUnlock ==
    /\ env.kind = "creds"
    /\ env.seal = "read"
    /\ env' = [env EXCEPT !.lock.readers = @ - 1, !.seal = "idle"]
    /\ UNCHANGED <<call, electVars>>

\* the c.signer that Prepare hands to calcDifficultyAndRank, line 473
PrepareRead ==
    /\ env.kind = "creds"
    /\ env' = readSignerUnlocked(env, "Prepare")
    /\ UNCHANGED <<call, electVars>>

\* the c.signer that CalcDifficulty hands to calcDifficultyAndRank, line 700
CalcDifficultyRead ==
    /\ env.kind = "creds"
    /\ env' = readSignerUnlocked(env, "CalcDifficulty")
    /\ UNCHANGED <<call, electVars>>

NextCreds ==
    \/ \E a \in CredAccounts : AuthorizeLock(a)
    \/ AuthorizeWrite
    \/ AuthorizeUnlock
    \/ SealRLock
    \/ SealRead
    \/ SealRUnlock
    \/ PrepareRead
    \/ CalcDifficultyRead

SpecCreds == InitCreds /\ [][NextCreds]_vars

(***************************************************************************)
(* Properties of the election                                              *)
(***************************************************************************)
Terminal == {"done", "panic", "hang"}

RECURSIVE SumPoints(_, _)
SumPoints(sel, i) == IF i = 0 THEN 0 ELSE sel[i].point + SumPoints(sel, i - 1)

Ranks(res) == {res[a].Rank : a \in DOMAIN res}

\* C1: the election is deterministic: a second run of the same election (same
\* config, block number and candidate array), whatever the generator was used
\* for before, ends as the first did and returns the same rank and score for
\* every address.
C1_Deterministic ==
    (run.no = 2 /\ elect.pc \in Terminal) =>
        (elect.pc = run.firstPc /\ result = run.first)

C1_Witness ==
    /\ run.no = 2
    /\ elect.pc = "done"
    /\ rng.pos >= 2
    /\ Cardinality(DOMAIN result) = MaxCand
    /\ result = run.first

\* C2: every returned VoteResults has ranks that are exactly 1..k with
\* k <= MaxMiner, and scores that do not increase with the rank.
C2_RanksWithinMaxMiner ==
    elect.pc = "done" =>
        LET k == Cardinality(DOMAIN result)
        IN  /\ Ranks(result) = 1 .. k
            /\ k <= MaxMiner
            /\ \A a, b \in DOMAIN result :
                   result[a].Rank < result[b].Rank => result[a].Score >= result[b].Score

\* the candidate the first selection step elects when the draw is r (a Go index)
FirstChoice(r) ==
    IF elect.variant = "bip3"
    THEN BIP3Chosen(cs, r)
    ELSE RangeSearch(Head(queue.storage), cs.selections, r, 0, Len(cs.selections)).target

\* C3: in the first selection step, of the draws r in [0, total) exactly point_i
\* elect candidate i, for every candidate i, in both variants (stated here for
\* candidates that all hold a positive point).
C3_FirstDrawProportional ==
    (/\ elect.pc = "loop"
     /\ elect.rank = 1
     /\ \A i \in 1 .. Len(cs.selections) : cs.selections[i].point >= 1) =>
        \A i \in 1 .. Len(cs.selections) :
            Cardinality({r \in 0 .. cs.total - 1 : FirstChoice(r) = i - 1})
                = cs.selections[i].point

\* C4: at every point of an election, after the Add calls that built the array
\* and after every removal of the linear variant, the prefix sums do not
\* decrease with the index, entry i's prefix sum is the sum of the points of
\* entries 0..i, and the cached total is the sum of all remaining points and the
\* last entry's prefix sum.
C4_PrefixSums ==
    LET sel == cs.selections
        n == Len(sel)
    IN  /\ \A i \in 1 .. n : sel[i].val = SumPoints(sel, i)
        /\ \A i \in 2 .. n : sel[i - 1].val <= sel[i].val
        /\ cs.total = SumPoints(sel, n)
        /\ n > 0 => cs.total = sel[n].val

C4_Witness ==
    /\ elect.variant = "bip3"
    /\ elect.pc = "loop"
    /\ elect.rank = 2
    /\ Len(cs.selections) = MaxCand - 1
    /\ cs.selections[1].address # 1
    /\ cs.selections[1].point > 0
    /\ cs.selections[1].val < cs.total

(***************************************************************************)
(* Properties of header preparation.                                       *)
(***************************************************************************)
EngineCalls == {"Prepare", "CalcDifficulty"}


Prepared == call.op = "Prepare" /\ call.err = ErrNone

\* the signers a target block authorises: those of the genesis extra-data, or
\* the accounts of the election over the target's stakers
AuthorisedFor(e, target) ==
    IF target.Number = 0 THEN e.genesisSigners
    ELSE IF e.stakersOK THEN DOMAIN ResultsAt(e) ELSE {}

\* C5 (as amended): for a known parent at height p, the target block found is
\* the block at height 0 if p < Epoch, at height Epoch if Epoch <= p < 2 * Epoch,
\* and otherwise the ancestor of the parent at height p - Epoch.
C5_TargetOneEpochBehindParent ==
    (call.op \in EngineCalls /\ call.parent # NilHeader /\ call.target # NilHeader)
        => LET p == call.parent.Number
           IN  call.target = HeaderAt(IF p < Epoch THEN 0
                                      ELSE IF p < 2 * Epoch THEN Epoch
                                      ELSE p - Epoch)

\* C5 (as claimed): the same, with the block at height p + 1 - Epoch from
\* p = 2 * Epoch on.
C5_TargetAsClaimed ==
    (call.op \in EngineCalls /\ call.parent # NilHeader /\ call.target # NilHeader)
        => LET p == call.parent.Number
           IN  call.target = HeaderAt(IF p < Epoch THEN 0
                                      ELSE IF p < 2 * Epoch THEN Epoch
                                      ELSE p + 1 - Epoch)

C5_Witness ==
    /\ call.op = "CalcDifficulty"
    /\ call.parent.Number > 2 * Epoch
    /\ call.exist
    /\ call.target.Number = call.parent.Number - Epoch

\* C6: a Prepare that finds its target block fails with the unauthorised-signer
\* error whenever the engine's signer is not among the signers the target
\* authorises, the genesis block included.
C6_UnauthorisedNeverPrepares ==
    (call.op = "Prepare" /\ call.exist /\ env.signer \notin AuthorisedFor(env, call.target))
        => call.err = errUnauthorizedSigner

\* C7: a successful Prepare leaves a nonce of at least 1, a zero mix digest and
\* an extra-data of extraVanity + extraSeal bytes, the caller's first
\* extraVanity bytes (zero where the caller gave none) and then zeros; against
\* a target other than genesis the signer is elected within the mining
\* candidates and difficulty and nonce are its score and rank.
C7_PreparedFields ==
    Prepared =>
        LET h == call.header
            res == ResultsAt(env)
        IN  /\ h.Nonce >= 1
            /\ h.MixDigest = 0
            /\ Len(h.Extra) = extraVanity + extraSeal
            /\ \A i \in 1 .. extraVanity :
                  h.Extra[i] = IF i <= Len(call.extra) THEN call.extra[i] ELSE 0
            /\ \A i \in extraVanity + 1 .. extraVanity + extraSeal : h.Extra[i] = 0
            /\ call.target.Number # 0 =>
                  /\ env.signer \in DOMAIN res
                  /\ h.Difficulty = res[env.signer].Score
                  /\ h.Nonce = res[env.signer].Rank
                  /\ h.Nonce <= Cardinality(DOMAIN res)

C7_Witness ==
    /\ Prepared
    /\ call.target.Number # 0
    /\ call.header.Nonce = 2
    /\ call.header.Difficulty = ResultsAt(env)[env.signer].Score
    /\ Len(call.extra) > extraVanity
    /\ Len(call.header.Extra) = extraVanity + extraSeal

\* C8: a successful Prepare stamps the header no earlier than parent time plus
\* period, and with the later of that and a reading of the clock taken during
\* the call.
C8_PreparedTime ==
    Prepared =>
        /\ call.header.Time >= call.parent.Time + Period
        /\ \E now \in {call.now1, call.now2} :
              call.header.Time = Max(now, call.parent.Time + Period)

C8_Witness ==
    /\ Prepared
    /\ call.now1 > call.parent.Time + Period
    /\ call.now2 > call.now1
    /\ call.header.Time = call.now2

VerifyParent ==
    IF Len(call.parents) > 0 THEN call.parents[Len(call.parents)]
    ELSE GetHeader(env, call.header.ParentHash, call.header.Number - 1)

\* the rules in the order of the interface, each with whether the header under
\* verification breaks it; the nonce and the parent rules bind no genesis header
VerifyRules ==
    LET h == call.header
        n == Len(h.Extra)
        checkpoint == h.Number % Epoch = 0
        parent == VerifyParent
        known == /\ parent # NilHeader
                 /\ parent.Number = h.Number - 1
                 /\ parent.Number = h.ParentHash
    IN  << <<ErrFutureBlock, h.Time > env.now>>,
           <<errMissingVanity, n < extraVanity>>,
           <<errMissingSignature, n < extraVanity + extraSeal>>,
           <<errExtraSigners, ~checkpoint /\ n # extraVanity + extraSeal>>,
           <<errInvalidCheckpointSigners,
             checkpoint /\ (n - extraVanity - extraSeal) % AddressLength # 0>>,
           <<errInvalidMixDigest, h.MixDigest # 0>>,
           <<errInvalidUncleHash, h.UncleHash # uncleHash>>,
           <<errInvalidNonce, h.Number > 0 /\ h.Nonce < 1>>,
           <<errForkHash, ~h.ForkOK>>,
           <<ErrUnknownAncestor, h.Number > 0 /\ ~known>>,
           <<ErrInvalidTimestamp,
             h.Number > 0 /\ known /\ parent.Time + Period > h.Time>> >>

Broken == {i \in DOMAIN VerifyRules : VerifyRules[i][2]}

\* C10: VerifyHeader returns the error of the earliest rule the header breaks,
\* in the order FutureBlock, MissingVanity, MissingSignature, ExtraSigners,
\* InvalidCheckpointSigners, InvalidMixDigest, InvalidUncleHash, InvalidNonce,
\* (fork hashes,) UnknownAncestor, InvalidTimestamp, and accepts the header
\* exactly if it breaks none.
C10_EarliestRuleWins ==
    call.op = "VerifyHeader" =>
        LET rules == VerifyRules
            broken == {i \in DOMAIN rules : rules[i][2]}
        IN  /\ broken = {} <=> call.err = ErrNone
            /\ broken # {} =>
                  \E i \in broken : /\ \A j \in broken : i <= j
                                    /\ call.err = rules[i][1]

C10_Witness ==
    /\ call.op = "VerifyHeader"
    /\ call.header.Number > 0
    /\ call.err = errMissingSignature
    /\ call.header.MixDigest # 0
    /\ call.header.Nonce < 1
    /\ VerifyParent = NilHeader
    /\ Cardinality(Broken) >= 4

ExtraDataErrors ==
    {errMissingVanity, errMissingSignature, errExtraSigners, errInvalidCheckpointSigners}

\* C11: a header not of the future, with n bytes of extra-data and
\* s = n - extraVanity - extraSeal, fails with MissingVanity if n < extraVanity,
\* with MissingSignature if extraVanity <= n < extraVanity + extraSeal, with
\* ExtraSigners if it is off a checkpoint and s # 0, with
\* InvalidCheckpointSigners if it is on a checkpoint and s is no multiple of
\* AddressLength, and with none of the four otherwise.
C11_ExtraDataRule ==
    (call.op = "VerifyHeader" /\ call.header.Time <= env.now) =>
        LET n == Len(call.header.Extra)
            s == n - extraVanity - extraSeal
            checkpoint == call.header.Number % Epoch = 0
        IN  CASE n < extraVanity -> call.err = errMissingVanity
              [] n >= extraVanity /\ s < 0 -> call.err = errMissingSignature
              [] s > 0 /\ ~checkpoint -> call.err = errExtraSigners
              [] s >= 0 /\ checkpoint /\ s % AddressLength # 0 ->
                    call.err = errInvalidCheckpointSigners
              [] OTHER -> call.err \notin ExtraDataErrors

C11_Witness ==
    /\ call.op = "VerifyHeader"
    /\ call.header.Number = Epoch
    /\ Len(call.header.Extra) = extraVanity + extraSeal + AddressLength
    /\ call.err = ErrNone

\* C12: a header other than genesis that VerifyHeader or VerifySeal accepts
\* was sealed by its coinbase, its coinbase is a signer the target block
\* authorises, within the mining candidates, and its difficulty and nonce are
\* the score and rank predicted for the coinbase at the target.
C12_SealChecked ==
    (/\ call.op \in {"VerifyHeader", "VerifySeal"}
     /\ call.header.Number > 0
     /\ call.err = ErrNone) =>
        LET h == call.header
            tb == getStakeTargetBlock(env, VerifyParent)
            dr == calcDifficultyAndRank(env, h.Seal.Coinbase, tb.target)
        IN  /\ h.Seal.Sealer = h.Seal.Coinbase
            /\ tb.exist
            /\ h.Seal.Coinbase \in AuthorisedFor(env, tb.target)
            /\ dr.rank >= 1
            /\ h.Seal.Difficulty = dr.diff
            /\ h.Nonce = dr.rank


(***************************************************************************)
(* Properties of the rank cap and of the sealing delay.                    *)
(***************************************************************************)
\* the calls that look an account's rank up at the target block
RankedCalls == {"Prepare", "Finalize", "Seal"}

\* a ranked call whose target is an existing block past genesis with a staking
\* list and an election that ends
RankLookedUp ==
    /\ call.op \in RankedCalls
    /\ call.exist
    /\ call.target.Number # 0
    /\ env.stakersOK
    /\ ~ElectionFails(env)

\* the account whose rank the call looks up: c.signer in Prepare, the header's
\* coinbase in Finalize and in Seal
RankedAccount == IF call.op = "Prepare" THEN env.signer ELSE call.coinbase

\* round(ff * n) for a fraction ff and n >= 0, halves away from zero
RoundOf(ff, n) ==
    CHOOSE t \in 0 .. n * ff[1] + 1 :
        /\ 2 * ff[2] * t - ff[2] <= 2 * ff[1] * n
        /\ 2 * ff[1] * n < 2 * ff[2] * t + ff[2]

\* clamp(x, lo, hi)
Clamp(x, lo, hi) == IF x < lo THEN lo ELSE IF x > hi THEN hi ELSE x

\* what a ranked call does with an account of that rank under that cap
CapApplied(cap) ==
    LET rank == VoteOf(ResultsAt(env), RankedAccount).Rank
        dr == calcDifficultyAndRank(env, RankedAccount, call.target)
    IN  /\ getMaxMiningCandidates(env, Cardinality(DOMAIN ResultsAt(env))) = cap
        /\ rank > cap => (dr = [diff |-> 0, rank |-> -1] /\ call.err = errUnauthorizedSigner)
        /\ (rank >= 1 /\ rank <= cap) =>
              /\ dr.rank = rank
              /\ call.op \in {"Prepare", "Finalize"} => call.err = ErrNone
              /\ (call.op = "Seal" /\ env.signer \in Elems(env.stakers))
                    => call.err \in {ErrNone, errSign}

\* C13 (as amended): the cap is 0 when the election of the target names no
\* account and otherwise clamp(round(fork_factor * k), 1, MaxMiner) for the k
\* accounts the election names; an account ranked above the cap is reported as
\* (0, -1) and is Unauthorized in Prepare, Finalize and Seal, and an account
\* ranked 1 .. cap is accepted.
C13_RankCap ==
    RankLookedUp =>
        LET k == Cardinality(DOMAIN ResultsAt(env))
        IN  CapApplied(IF k = 0 THEN 0 ELSE Clamp(RoundOf(env.forkFactor, k), 1, MaxMiner))

\* C13 as claimed: the cap is clamp(round(fork_factor * |stakers|), 1, MaxMiner)
C13_RankCapAsClaimed ==
    RankLookedUp =>
        CapApplied(Clamp(RoundOf(env.forkFactor, Len(env.stakers)), 1, MaxMiner))

\* Finalize refuses a coinbase ranked above a cap that the floor of 1 has made
C13_Witness ==
    /\ RankLookedUp
    /\ call.op = "Finalize"
    /\ RoundOf(env.forkFactor, Cardinality(DOMAIN ResultsAt(env))) = 0
    /\ VoteOf(ResultsAt(env), call.coinbase).Rank = 2
    /\ call.err = errUnauthorizedSigner

\* C14: getDelay(rank) is 0 for rank 1 and, for a rank r >= 2 of group g (the
\* g with 1 + (g - 1) * 3 <= r <= 3 * g), (g - 1) seconds plus
\* (r - (1 + (g - 1) * 3)) tenths of a second; it is never negative.
C14_DelayOfRank ==
    call.op = "getDelay" =>
        /\ call.err = ErrNone
        /\ call.delay >= 0
        /\ call.rank = 1 => call.delay = 0
        /\ call.rank >= 2 =>
              \E g \in 1 .. call.rank :
                 LET s == 1 + (g - 1) * 3
                 IN  /\ s <= call.rank
                     /\ call.rank <= 3 * g
                     /\ call.delay = (g - 1) * 1000 + (call.rank - s) * 100

\* the fifth rank waits a second for its group and a tenth for its place
C14_Witness == call.op = "getDelay" /\ call.rank = 5 /\ call.delay = 1100


(***************************************************************************)
(* Properties of sealing                                                   *)
(***************************************************************************)
\* the seal attempts started so far
Attempts == {env.attempts[i] : i \in DOMAIN env.attempts}

\* C15: an attempt whose stop signal is raised before its delay has expired is
\* abandoned: its timed task never gets to the send, and no block of it is on
\* the results channel.
C15_StoppedEarlyNeverSent ==
    env.kind = "miner" =>
        \A i \in DOMAIN env.attempts :
            env.attempts[i].early =>
                /\ env.attempts[i].pc \in {"spawned", "done"}
                /\ env.attempts[i].out \in {"none", "abandoned"}
                /\ env.attempts[i].sent = 0
                /\ \A k \in DOMAIN env.results : env.results[k] # i

\* an attempt stopped early has been abandoned
C15_Witness ==
    /\ env.kind = "miner"
    /\ \E a \in Attempts : a.stop /\ a.early /\ a.pc = "done" /\ a.out = "abandoned"

\* C16 (as amended): the signer backend is asked, and the signature spliced in,
\* within the call of Seal, before the timed task starts and whatever the
\* delay; an attempt cancelled before its delay expires has therefore invoked
\* the signer backend, and publishes nothing.
C16_SignedBeforeTheWait ==
    env.kind = "miner" =>
        \A a \in Attempts :
            /\ a.signed
            /\ a.sealer \in MinerAccounts
            /\ a.early => a.out \in {"none", "abandoned"}

\* C16 as claimed: an attempt is signed only once its delay has expired without
\* cancellation, and never if it is cancelled before
C16_SignedAfterTheWait ==
    env.kind = "miner" =>
        \A a \in Attempts :
            /\ a.signed => a.pc \in {"send", "done"}
            /\ a.early => ~a.signed

\* an attempt cancelled before its delay expired holds a signature
C16_Witness ==
    /\ env.kind = "miner"
    /\ \E a \in Attempts : a.early /\ a.signed /\ a.out = "abandoned"

\* C17: an attempt publishes at most one block; its timed task ends, whether
\* or not the results channel is drained: with room in the channel the block
\* is sent, without room it is dropped.  Attempts are never forgotten and an
\* ended task stays ended, so every task ends exactly if again and again all
\* the tasks started have ended.
C17_OneBlockAndDone ==
    /\ [](env.kind = "miner" =>
             \A i \in DOMAIN env.attempts :
                 /\ env.attempts[i].sent <= 1
                 /\ env.attempts[i].sent = 1 <=> env.attempts[i].out = "published"
                 /\ Cardinality({k \in DOMAIN env.results : env.results[k] = i}) <= 1)
    /\ []<>(env.kind = "miner" /\ \A i \in DOMAIN env.attempts : env.attempts[i].pc = "done")

\* a block was dropped because the results channel was full
C17_Witness ==
    /\ env.kind = "miner"
    /\ \E a \in Attempts : a.out = "dropped"
    /\ Len(env.results) = resultQueueSize

\* C18: the account that signed a published block is the coinbase of its header
C18_SealerIsCoinbase ==
    env.kind = "miner" =>
        \A a \in Attempts : a.out = "published" => a.sealer = a.coinbase


(***************************************************************************)
(* Properties of the rewards                                               *)
(***************************************************************************)
\* the blocks of the chain that account produced
ProducedBy(a) == {n \in 1 .. env.head : env.coinbases[n] = a}

\* the moves of the entry of account a posted by block n
MovesOf(a, n) == {m \in env.state.moved : m.addr = a /\ m.number = n}

\* the pending entries of account a posted by block n
PendingOf(a, n) ==
    {i \in DOMAIN env.state.behind[a] : env.state.behind[a][i].Number = n}

\* the signers of the ancestor one epoch below block m of the chain
SignersBelow(m) ==
    RewardSigners([env EXCEPT !.head = m - 1],
                  [Number |-> m, ParentHash |-> m - 1, Time |-> m * Period])

\* C19: the reward of block N goes to the pending entries of its coinbase,
\* tagged N, and not to the main balance: a main balance is the sum of the
\* entries moved to it, and every block's reward is pending with its producer
\* or was moved; no entry posted by block k is moved by a block before
\* k + Epoch.
C19_RewardDeferred ==
    env.kind = "ledger" =>
        /\ \A a \in LedgerAccounts :
              /\ \A n \in ProducedBy(a) :
                    \/ /\ Cardinality(PendingOf(a, n)) = 1
                       /\ \A i \in PendingOf(a, n) :
                             env.state.behind[a][i].Balance = env.reward
                       /\ MovesOf(a, n) = {}
                    \/ /\ PendingOf(a, n) = {}
                       /\ \E m \in MovesOf(a, n) : MovesOf(a, n) = {m} /\ m.amount = env.reward
              /\ \A i \in DOMAIN env.state.behind[a] :
                    env.state.behind[a][i].Number \in ProducedBy(a)
              /\ env.state.balance[a]
                    = env.reward * Cardinality({m \in env.state.moved : m.addr = a})
        /\ \A m \in env.state.moved : m.at >= m.number + Epoch

\* a reward was moved to the main balance exactly one epoch after its block
C19_Witness ==
    /\ env.kind = "ledger"
    /\ \E m \in env.state.moved :
          /\ m.at = m.number + Epoch
          /\ m.number > Epoch
          /\ env.state.balance[m.addr] >= m.amount
          /\ env.state.behind[m.addr] # <<>>

\* C20: every positive pending entry of account a posted by block n is moved
\* exactly once, with its amount, by the first block m >= n + Epoch for which
\* a is a signer of the ancestor at height m - Epoch.
C20_MovedAtFirstChance ==
    env.kind = "ledger" =>
        \A a \in LedgerAccounts : \A n \in ProducedBy(a) :
            LET chances == {m \in n + Epoch .. env.head : a \in SignersBelow(m)}
            IN  /\ Cardinality(MovesOf(a, n)) <= 1
                /\ \A mv \in MovesOf(a, n) : mv.amount = env.reward
                /\ chances = {} => MovesOf(a, n) = {}
                /\ chances # {} =>
                      \E mv \in MovesOf(a, n) :
                          /\ mv.at \in chances
                          /\ \A m \in chances : mv.at <= m


(***************************************************************************)
(* Properties of the reward schedule                                       *)
(***************************************************************************)
\* the reward the schedule names for a block, in the units of getReward and in
\* exact arithmetic: with N' = number * period / 10,
\* (26 - round(N' / section) / 2 + additional) * period / 10, not below 0
ScheduledReward(period, number) ==
    LET sections == (2 * number * period + DefaultBlockCreationSec * blockSectionDivisionNumber)
                       \div (2 * DefaultBlockCreationSec * blockSectionDivisionNumber)
        additional == IF number * period <= blockNumberAt1Year * DefaultBlockCreationSec
                      THEN additionalReward ELSE 0
        twice == 2 * defaultReward - sections + 2 * additional
    IN  IF twice <= 0 THEN 0
        ELSE (twice * period * 10 ^ RewardPlaces) \div (2 * DefaultBlockCreationSec)

\* C21: getReward is 0 below rewards_start and otherwise the scheduled reward;
\* it is never negative.
C21_RewardAsScheduled ==
    call.op = "getReward" =>
        /\ call.reward >= 0
        /\ call.number < env.rewards => call.reward = 0
        /\ call.number >= env.rewards =>
              call.reward = ScheduledReward(env.period, call.number)

(***************************************************************************)
(* Properties of the Point Calculator                                      *)
(***************************************************************************)
PointCalls == IF call.op = "CalcPointBigint" THEN {call} ELSE {}

\* the floor of x / y, y # 0
FloorDiv(x, y) == IF y > 0 THEN x \div y ELSE (-x) \div (-y)

\* the reference block of a period: the floor of BlockYear / (period / 10)
ReferenceOf(period) == (BlockYear * DefaultBlockCreationSec) \div period

RatioOf(c, period) ==
    LET q == FloorDiv(100 * c.nowBlock, ReferenceOf(period) + c.stakeBlock)
    IN  IF q < 100 THEN q ELSE 100

AdvantageOf(c, period) ==
    FloorDiv(c.prevStake * FloorDiv(c.prevStake, c.prevStake + c.addStake)
                 * RatioOf(c, period), 100)

\* C26: CalcPointBigint returns prev_stake + advantage + add_stake, with
\* ratio = min(100, floor(100 * now_block / (reference_block + stake_block))),
\* reference_block = floor(BlockYear / (period / 10)) and advantage =
\* floor(prev_stake * floor(prev_stake / (prev_stake + add_stake)) * ratio / 100),
\* whenever the stake after the top-up is positive; for stakes that are not
\* negative the result is not negative.
C26_PointAsSpecified ==
    \A c \in PointCalls :
        c.prevStake + c.addStake > 0 =>
            /\ c.out.pc = "done"
            /\ c.out.point = c.prevStake + AdvantageOf(c, env.period) + c.addStake
            /\ c.addStake >= 0 => c.out.point >= 0

\* a call with a top-up, an advantage that is not zero and a ratio below 100:
\* the stake was reduced, and the reference block is a quotient that was cut
C26_Witness ==
    \E c \in PointCalls :
        /\ env.period = 80
        /\ c.out.pc = "done"
        /\ c.addStake < 0
        /\ RatioOf(c, env.period) \in 1 .. 99
        /\ AdvantageOf(c, env.period) > 0
        /\ c.out.point > c.prevStake + c.addStake

\* C27: with add_stake = 0 the Point Calculator returns prev_stake plus the
\* advantage floor(prev_stake * ratio / 100) of a stake held unchanged; that is
\* prev_stake itself exactly when prev_stake * ratio < 100.
C27_NoTopUp ==
    \A c \in PointCalls :
        (c.addStake = 0 /\ c.prevStake > 0) =>
            /\ c.out.pc = "done"
            /\ c.out.point =
                   c.prevStake + FloorDiv(c.prevStake * RatioOf(c, env.period), 100)
            /\ (c.out.point = c.prevStake) <=> (c.prevStake * RatioOf(c, env.period) < 100)

\* C27 as the claim states it: with add_stake = 0 the result is prev_stake
C27_NoTopUpIsIdentity ==
    \A c \in PointCalls :
        (c.addStake = 0 /\ c.prevStake > 0) =>
            (c.out.pc = "done" /\ c.out.point = c.prevStake)

\* a stake held for long, no top-up: the point is twice the stake
C27_Witness ==
    \E c \in PointCalls :
        /\ c.addStake = 0
        /\ c.prevStake = MaxStake
        /\ RatioOf(c, env.period) = 100
        /\ c.out.point = 2 * c.prevStake

(***************************************************************************)
(* Properties of the staker set                                            *)
(***************************************************************************)
StakerNodes == IF env.kind = "stakers" /\ env.number > 0
               THEN {env.nodes[n] : n \in Nodes} ELSE {}

Members(stks) == {stks[i] : i \in 1 .. Len(stks)}

\* the members after the transactions, each taken in its turn
RECURSIVE MembersAfter(_, _, _)
MembersAfter(members, txs, number) ==
    IF txs = <<>> THEN members
    ELSE LET tx == Head(txs)
         IN  MembersAfter(
                 IF tx.base = Main /\ tx.target = Stake THEN members \cup {tx.from}
                 ELSE IF tx.base = Stake /\ tx.target = Main /\ number >= BIP1Block
                      THEN members \ {tx.from}
                 ELSE members,
                 Tail(txs), number)

\* C22: setStakersWithTxs changes the staker set only so: a (Main, Stake)
\* transaction adds its sender, a (Stake, Main) transaction removes its sender
\* from the BIP1 block on and does nothing before it, every other pair does
\* nothing, and an address that sent no staking transaction stays as it was; a
\* call that fails changes nothing.
C22_StakersAfterBlock ==
    \A node \in StakerNodes :
        /\ node.pc = "done" =>
               Members(node.stks) = MembersAfter(Members(node.prior), env.txs, env.number)
        /\ node.pc \in {"ErrUnknownAncestor", "errMissingState", "errSignature"} =>
               node.stks = node.prior

\* before BIP1, a block in which a staker unstakes and another account stakes:
\* the first stays, the second is added
C22_Witness ==
    \E node \in StakerNodes :
        /\ node.pc = "done"
        /\ env.number < BIP1Block
        /\ \E i, j \in 1 .. Len(env.txs) :
              /\ env.txs[i].base = Stake /\ env.txs[i].target = Main
              /\ env.txs[i].from \in Members(node.prior)
              /\ env.txs[i].from \in Members(node.stks)
              /\ env.txs[j].base = Main /\ env.txs[j].target = Stake
              /\ env.txs[j].from \notin Members(node.prior)
              /\ env.txs[j].from \in Members(node.stks)

C28_DivisorNeverZero ==
    \A node \in StakerNodes :
        \A p \in node.calls : p.prevStake + p.addStake # 0

(***************************************************************************)
(* Properties of the staker registry                                       *)
(***************************************************************************)
StakersCalls == IF call.op = "getStakers" THEN {call} ELSE {}

\* the members after the blocks 1 .. number of the chain, from the empty set
\* of genesis
RECURSIVE MembersAt(_, _)
MembersAt(chain, number) ==
    IF number = 0 THEN {}
    ELSE MembersAfter(MembersAt(chain, number - 1), chain[number].txs, number)

\* the list of an ordered set of addresses
RECURSIVE ListOf(_)
ListOf(members) ==
    IF members = {} THEN <<>>
    ELSE LET last == CHOOSE a \in members : \A b \in members : b <= a
         IN  Append(ListOf(members \ {last}), last)

\* the snapshot of a block before the call: that of the cache, else that of
\* the database
SnapshotBefore(c, number) ==
    IF c.cacheBefore[number].has THEN Unmarshal(c.cacheBefore[number].bytes, NewStakers)
    ELSE c.storeBefore[number].list

HadSnapshot(c, number) == c.cacheBefore[number].has \/ c.storeBefore[number].has

\* C24: a getStakers that succeeds returns the snapshot of the block from the
\* cache, else from the database, else the empty set at genesis, and then has
\* replayed nothing and written nothing; else it returns the snapshot of the
\* nearest block below that has one (the empty set at genesis) with the
\* transactions of the blocks passed applied in ascending order, which is the
\* staker set of the chain at that block, and has put that list under the block
\* asked for into the cache and into the database.
C24_Reconstruction ==
    \A c \in StakersCalls :
        c.out.pc = "done" =>
            /\ c.out.list = ListOf(MembersAt(env.chain, c.number))
            /\ (HadSnapshot(c, c.number) \/ c.number = 0) =>
                   /\ c.blocks = <<>>
                   /\ c.number > 0 => c.out.list = SnapshotBefore(c, c.number)
                   /\ env.cache = c.cacheBefore /\ env.store = c.storeBefore
            /\ ~(HadSnapshot(c, c.number) \/ c.number = 0) =>
                   /\ c.blocks # <<>>
                   /\ \A i \in 1 .. Len(c.blocks) :
                          /\ c.blocks[i] = c.number + 1 - i
                          /\ ~HadSnapshot(c, c.blocks[i])
                   /\ LET base == c.number - Len(c.blocks)
                      IN  base = 0 \/ HadSnapshot(c, base)
                   /\ env.cache[c.number] = [has |-> TRUE, bytes |-> Marshal(c.out.list)]
                   /\ env.store[c.number] = [has |-> TRUE, list |-> c.out.list]

\* two blocks replayed on the snapshot of block 1, the order of the two
\* deciding who stakes at the end
C24_Witness ==
    \E c \in StakersCalls :
        /\ c.out.pc = "done"
        /\ c.number = 3
        /\ c.blocks = <<3, 2>>
        /\ HadSnapshot(c, 1)
        /\ Len(env.chain[2].txs) = 2 /\ Len(env.chain[3].txs) = 1
        /\ c.out.list = <<1, 2>>
        /\ env.store[3].has

\* the walk of the call met a block the chain does not have, below no snapshot
WalkFailed(c) ==
    \E k \in 1 .. c.number :
        /\ env.chain[k].has = "none"
        /\ \A j \in k .. c.number : ~HadSnapshot(c, j)

\* C25: a getStakers whose walk meets a missing block fails with
\* ErrUnknownAncestor, Finalize returns that error as it is, and nothing was
\* written to the cache or the database.
C25_UnknownAncestorUnchanged ==
    (call.op \in {"getStakers", "Finalize"} /\ WalkFailed(call)) =>
        /\ call.out.pc = "ErrUnknownAncestor"
        /\ env.cache = call.cacheBefore /\ env.store = call.storeBefore

(***************************************************************************)
(* Properties of the work loops                                            *)
(***************************************************************************)
Requests == IF env.kind = "work" THEN 1 .. Len(env.words) ELSE {}

Larger(a, b) == IF a > b THEN a ELSE b

C40_TopUpHasNoAdvantage ==
    \A c \in PointCalls :
        c.prevStake >= 0 =>
            /\ c.addStake >= 1 =>
                   /\ c.out.pc = "done"
                   /\ c.out.point = c.prevStake + c.addStake
                   /\ BigDiv(c.prevStake, c.prevStake + c.addStake) = 0
            /\ (c.out.pc = "done" /\ c.out.point # c.prevStake + c.addStake) =>
                   c.addStake <= 0

\* a top-up of an old stake at full ratio: the point is the sum of the stakes
C40_Witness ==
    \E c \in PointCalls :
        /\ c.prevStake = MaxStake
        /\ c.addStake = 1
        /\ RatioOf(c, env.period) = 100
        /\ c.out.pc = "done"
        /\ c.out.point = MaxStake + 1

(***************************************************************************)
(* Properties of the rewards of a chain whose rewards start later          *)
(***************************************************************************)
RECURSIVE SumBehind(_)
SumBehind(entries) ==
    IF entries = <<>> THEN 0 ELSE Head(entries).Balance + SumBehind(Tail(entries))

RECURSIVE SumOver(_, _)
SumOver(st, accounts) ==
    IF accounts = {} THEN 0
    ELSE LET a == CHOOSE x \in accounts : TRUE
         IN  st.balance[a] + SumBehind(st.behind[a]) + SumOver(st, accounts \ {a})

\* the main balances and all pending entries of all accounts
TotalOf(st) == SumOver(st, LedgerAccounts)

\* C38: a positive entry of account a posted by block n is moved once a was a
\* signer of the ancestor at every block from n + Epoch on and more such
\* blocks were produced than a had entries posted before n: no entry in front
\* of it, a zero one of the blocks below rewards_start included, keeps it
\* pending.
C38_EveryEntryMatures ==
    \A a \in LedgerAccounts : \A n \in ProducedBy(a) :
        LET ahead == Cardinality({k \in ProducedBy(a) : k < n})
            chances == {m \in n + Epoch .. env.head : a \in SignersBelow(m)}
        IN  (/\ getRewardAt(env, n) > 0
             /\ chances = n + Epoch .. env.head
             /\ Cardinality(chances) > ahead) => MovesOf(a, n) # {}

\* C39: Finalize of block N raises the sum of all main balances and pending
\* entries by getReward(N); for every account the list of pending entries
\* either stays (with the entry of the block added for the coinbase) and the
\* main balance with it, or loses its first entry, whose balance is what the
\* main balance gains.
C39_RewardConserved ==
    [][LET number == env'.head
           coinbase == env'.coinbases[number]
           reward == getRewardAt(env, number)
       IN  /\ TotalOf(env'.state) = TotalOf(env.state) + reward
           /\ \A a \in LedgerAccounts :
                 LET posted == IF a = coinbase
                               THEN Append(env.state.behind[a],
                                           [Number |-> number, Balance |-> reward])
                               ELSE env.state.behind[a]
                 IN  \/ /\ env'.state.behind[a] = posted
                        /\ env'.state.balance[a] = env.state.balance[a]
                     \/ /\ posted # <<>>
                        /\ Head(posted).Balance > 0
                        /\ env'.state.behind[a] = Tail(posted)
                        /\ env'.state.balance[a] = env.state.balance[a] + Head(posted).Balance
      ]_vars

\* rewards started late: an account holds a moved reward and a pending one,
\* another a pending entry without a balance
C39_Witness ==
    /\ env.kind = "ledger"
    /\ env.rewards = RewardsStart
    /\ \E a \in LedgerAccounts :
          /\ env.state.balance[a] > 0
          /\ env.state.behind[a] # <<>>
          /\ \E m \in env.state.moved : m.addr = a
    /\ \E a \in LedgerAccounts :
          env.state.behind[a] # <<>> /\ Head(env.state.behind[a]).Balance = 0

(***************************************************************************)
(* The two loops of the worker and their channels                          *)
(***************************************************************************)
\* mainLoop can take a step: receive the request offered on newWorkCh, or go
\* on with commitTransactions
MainLoopCanStep ==
    \/ ENABLED (\E ready \in BOOLEAN, local \in 0 .. MaxPending, remote \in 0 .. MaxPending :
                   MainNewWork(ready, local, remote))
    \/ ENABLED (\E tenths \in 1 .. 10 : MainCommitTransactions(tenths))
    \/ ENABLED MainSendAdjust

\* C36: the work loop and the main loop never block each other: while the
\* work loop waits in its send on newWorkCh, the main loop is able to go on
\* (to end its commitTransactions, sending on resubmitAdjustCh, or to receive
\* the request), so that every request is received.
C36_LoopsNeverBlockEachOther ==
    (env.kind = "work" /\ env.loop = "send") => MainLoopCanStep

(***************************************************************************)
(* Properties of the task loop                                             *)
(***************************************************************************)
\* the seal attempts whose stop channel is not closed
Unsignalled ==
    IF env.kind = "task"
    THEN {i \in DOMAIN env.attempts : ~env.closed[env.attempts[i].stop]}
    ELSE {}

\* C33: a task with the seal hash of the task accepted before starts no seal
\* attempt and closes nothing; a task with a new seal hash closes the stop
\* channel of the attempt before it, so the only attempt whose stop channel is
\* open is the one holding the channel in stopCh, at most one; two attempts
\* in a row have the same seal hash only with a task accepted between them;
\* after the exit no attempt has an open stop channel.
C33_OneAttemptInFlight ==
    env.kind = "task" =>
        /\ Cardinality(Unsignalled) <= 1
        /\ \A i \in Unsignalled : env.attempts[i].stop = env.stopCh /\ i = Len(env.attempts)
        /\ env.last.way = "duplicate" <=> (env.taken > 0 /\ env.last.sealHash = env.last.prev)
        /\ env.last.way \in {"sealed", "skipped", "failed"} =>
              /\ env.prev = env.last.sealHash
              /\ ~env.exited => (env.stopCh = Len(env.closed) /\ ~env.closed[env.stopCh])
              /\ \A i \in Unsignalled : env.last.way = "sealed"
        /\ \A i \in DOMAIN env.attempts :
              (i < Len(env.attempts)
                   /\ env.attempts[i].sealHash = env.attempts[i + 1].sealHash) =>
                  env.attempts[i + 1].stop > env.attempts[i].stop + 1
        /\ env.exited => Unsignalled = {}

\* a second task was sealed while the attempt of the first was still in its
\* select: the first is stopped, the second is in flight, and a task with the
\* hash of the second was passed over
C33_Witness ==
    /\ env.kind = "task"
    /\ Len(env.attempts) = 2
    /\ env.attempts[1].pc = "abandoned"
    /\ env.attempts[2].pc = "select"
    /\ Unsignalled = {2}
    /\ env.last.way = "duplicate"

(***************************************************************************)
(* Properties of Finalize                                                  *)
(***************************************************************************)
FinalizeCalls == IF call.op = "FinalizeHeader" THEN {call} ELSE {}

PublishedNow ==
    {i \in DOMAIN env.attempts :
        env.attempts[i].out # "published" /\ env'.attempts[i].out = "published"}

\* C37: the header of every block that Seal sends to the results channel,
\* checkpoint or not, has an extra-data of extraVanity + extraSeal bytes, a
\* zero mix digest, the uncle hash of no uncles, a nonce of at least 1, a time
\* of at least the parent's plus the period and of at most the clock at the
\* moment it is sent; verifyHeader, the fork hashes matching, accepts it at
\* that moment.
C37_PublishedHeaderVerifies ==
    [][\A i \in PublishedNow :
          LET h == env'.attempts[i].header
              parent == GetHeader(env', h.ParentHash, h.Number - 1)
          IN  /\ Len(h.Extra) = extraVanity + extraSeal
              /\ h.MixDigest = 0
              /\ h.UncleHash = uncleHash
              /\ h.Nonce >= 1
              /\ parent # NilHeader
              /\ h.Time >= parent.Time + Period
              /\ h.Time <= env'.now
              /\ h.Time * Second <= env'.clock
              /\ verifyHeader(env', [ForkOK |-> TRUE] @@ h, <<>>) = ErrNone
      ]_vars

\* a block on a checkpoint height, of a signer of rank 2, was published and
\* waits in the results channel
C37_Witness ==
    /\ env.kind = "miner"
    /\ \E i \in DOMAIN env.attempts :
          /\ env.attempts[i].out = "published"
          /\ env.attempts[i].header.Number % Epoch = 0
          /\ env.attempts[i].header.Nonce = 2
          /\ env.attempts[i].header.Time * Second <= env.clock
          /\ \E k \in DOMAIN env.results : env.results[k] = i

(***************************************************************************)
(* The ranges of the queue variant                                         *)
(***************************************************************************)
\* the sum of the points of the election running, which the queue variant
\* leaves as it is
TotalPoints == cs.total

\* C34: in the queue variant every range in the queue has
\* 0 <= min <= max <= total and start < end, the queue never holds more
\* ranges than there are candidates left to elect, every draw is from an
\* interval that is not empty, and the election ends without a panic and
\* without a search that cannot end.
C34_QueueWellFormed ==
    elect.variant = "queue" =>
        /\ elect.pc \notin {"panic", "hang"}
        /\ \A i \in DOMAIN queue.storage :
              LET r == queue.storage[i]
              IN  /\ 0 <= r.min /\ r.min <= r.max /\ r.max <= TotalPoints
                  /\ 0 <= r.start /\ r.start < r.end
                  /\ r.end <= Len(cs.selections)
        /\ elect.pc = "loop" =>
              /\ Len(queue.storage) + (elect.rank - 1) <= queue.size
              /\ QueueDraws(Frame) => QueueDrawArg(Frame) > 0

(***************************************************************************)
(* Properties of elections running at once                                 *)
(***************************************************************************)
\* how the election of run r ends when nothing else uses the generator
RunAlone(r, stream) ==
    IF r.variant = "bip3"
    THEN RunBIP3(BIP3Enter(BuildCandidates(r.points)), stream, 1)
    ELSE RunQueue(QueueEnter(BuildCandidates(r.points)), stream, 1)

\* C35: an election that has ended, another one running or having run at the
\* same time, ended as it ends when run alone and returned the same
\* VoteResults.
C35_RunsIsolated ==
    env.kind = "runs" =>
        \A p \in 1 .. 2 :
            env.runs[p].pc \in {"done", "panic", "hang"} =>
                /\ env.runs[p].pc = RunAlone(env.runs[p], env.streams[env.runs[p].seed]).pc
                /\ env.runs[p].result
                       = RunAlone(env.runs[p], env.streams[env.runs[p].seed]).result

(***************************************************************************)
(* Properties of the signer fields                                         *)
(***************************************************************************)
\* what one call of Authorize writes, or what the engine is built with
WrittenByOneAuthorize(signer, signFn) ==
    /\ signer[1] = signer[2]
    /\ signFn \in {0, signer[1]}

\* C31: no write of the signer fields is made without the write lock, every
\* read of them by Prepare, Seal and CalcDifficulty was made holding the lock,
\* and what a reader took is the address (and, for Seal, the pair of address
\* and signing function) that one call of Authorize wrote.
C31_SignerUnderLock ==
    env.kind = "creds" =>
        /\ env.authorize.pc # "idle" => env.lock.writer
        /\ ~(env.lock.writer /\ env.lock.readers > 0)
        /\ \A r \in CredReaders :
              env.read[r].done =>
                  /\ env.read[r].held
                  /\ WrittenByOneAuthorize(env.read[r].signer, env.read[r].signFn)
        /\ env.read["Seal"].done =>
              env.read["Seal"].signFn = env.read["Seal"].signer[1]

====
